---- MODULE Spec2Model ----
(***************************************************************************)
(* Model of the candidate view of src/src/App.tsx: the useRecorder hook,   *)
(* the per-question recording controller (recordAnswer / stopRecording /   *)
(* ensureRecordingStopped, the question panel and the navigation buttons)  *)
(* and the submission pipeline exportAndUpload.                            *)
(*                                                                         *)
(* React semantics kept by the model: a handler invoked by a click reads   *)
(* the state of the latest render; everything that runs later on behalf of *)
(* that handler (the code after an await, a timer callback) still reads    *)
(* the values captured by the render in which the handler was created.     *)
(* Those captured values are stored with the pending operation ("snap").   *)
(* Functional updates (setX(prev => ...)) and refs read the live state.    *)
(* One action is one browser task together with its microtasks.            *)
(***************************************************************************)
EXTENDS Integers, Sequences, FiniteSets, TLC

\* ---------------------------------------------------------------- bounds
NumQuestions == 2       \* questions of the template
MaxTakes     == 2       \* recordAnswer invocations (MediaRecorder objects) per session
MaxStopCalls == 2       \* MediaRecorder.stop() invocations counted per recorder
MaxStopTracksCalls == 2 \* stopTracks() invocations made in a row
MaxTailLen == 2         \* characters of a prompt that vary

\* ------------------------------------------------------------- constants
Null == 0
DefaultTimeLimitSec == 120
MaxAttempts == 3
PromptPrefixLen == 30

Questions == 1..NumQuestions
Takes     == 1..MaxTakes

\* MediaStreams by id: the one returned to the request() of recorder t's
\* start() is t, the one returned to the request() of the mount effect is
\* MountStream.
MountStream == MaxTakes + 1

\* Strings are sequences of one-character strings.
Lower == {"a", "b", "c", "d", "e", "f", "g", "h", "i", "j", "k", "l", "m",
          "n", "o", "p", "q", "r", "s", "t", "u", "v", "w", "x", "y", "z"}
Upper == {"A", "B", "C", "D", "E", "F", "G", "H", "I", "J", "K", "L", "M",
          "N", "O", "P", "Q", "R", "S", "T", "U", "V", "W", "X", "Y", "Z"}
Digits == <<"0", "1", "2", "3", "4", "5", "6", "7", "8", "9">>
\* [a-zA-Z0-9]
AlnumChars == Lower \cup Upper \cup {Digits[k] : k \in 1..10}
IsAlnum(c) == c \in AlnumChars
\* s.replace(/[^a-zA-Z0-9]/g, '_')
Sanitize(s) == [k \in 1..Len(s) |-> IF IsAlnum(s[k]) THEN s[k] ELSE "_"]
\* s.slice(0, n)
Slice(s, n) == SubSeq(s, 1, IF n < Len(s) THEN n ELSE Len(s))
\* the decimal digits of n, as the template literal writes a number
RECURSIVE Decimal(_)
Decimal(n) == IF n < 10 THEN <<Digits[n + 1]>>
              ELSE Decimal(n \div 10) \o <<Digits[(n % 10) + 1]>>
WebmExt == <<".", "w", "e", "b", "m">>
\* template.company || 'company', template.role || 'role' of the template in use
Company == <<"A", "c", "m", "e">>
Role == <<"Q", "A">>
\* the prompts of the template in use
DefaultPrompts == [i \in 1..NumQuestions |-> <<"W", "h", "y", "?">>]

\* template.questions[i].timeLimitSec for the question with id q; the id of a
\* question is its 1-based position, currentQuestion is the 0-based index.
timeLimitSec == [q \in Questions |-> IF q = 1 THEN 2 ELSE 1]
QuestionAt(i) == i + 1
\* template.questions[i].required: the first question is required, the others are not
required == [q \in Questions |-> q = 1]

\* q.timeLimitSec ?? 120
TimeLimitOf(q) == IF timeLimitSec[q] = Null THEN DefaultTimeLimitSec ELSE timeLimitSec[q]

Min(a, b) == IF a < b THEN a ELSE b
Max(a, b) == IF a > b THEN a ELSE b

\* A RecordingClip: blob is the sequence of fragments the Blob was built from;
\* a fragment is named by the recorder (take) that delivered it.
NoClip == [hasBlob |-> FALSE, blob |-> <<>>]
ClipOf(b) == [hasBlob |-> TRUE, blob |-> b]

\* A slot of the clips array: { qid } without media, { qid, blob, url } with it.
EmptySlot(q) == [qid |-> q, hasBlob |-> FALSE, blob |-> <<>>]
\* template.questions.map(q => ({ qid: q.id }))
InitialClips == [i \in 1..NumQuestions |-> EmptySlot(QuestionAt(i - 1))]
\* the value of find() when no element matches
Undefined == [qid |-> Null, hasBlob |-> FALSE, blob |-> <<>>]
\* cl.find(c => c.qid === q): the first slot whose qid is q
FindClip(cl, q) ==
    IF \E i \in 1..Len(cl) : cl[i].qid = q
    THEN cl[CHOOSE i \in 1..Len(cl) : cl[i].qid = q /\ \A j \in 1..(i - 1) : cl[j].qid # q]
    ELSE Undefined
SlotHasBlob(c) == c.hasBlob
\* prev.map(c => c.qid === questionId ? { ...c, blob, url } : c)
StoreBlob(prev, questionId, b) ==
    [i \in 1..Len(prev) |-> IF prev[i].qid = questionId
                            THEN [prev[i] EXCEPT !.hasBlob = TRUE, !.blob = b]
                            ELSE prev[i]]
\* a re-record that adds a fresh slot for the question and keeps the old one
ClearBlobAddsSlot(prev, qid) == Append(prev, EmptySlot(qid))

\* prev.map(c => c.qid === qid ? { qid: c.qid } : c)
ClearBlob(prev, qid) ==
    [i \in 1..Len(prev) |-> IF prev[i].qid = qid THEN EmptySlot(prev[i].qid) ELSE prev[i]]

\* What the caller of stopRecording does once stopRecording has returned.
NoCont == [kind |-> "none", qid |-> Null, target |-> 0]
StopCont(q) == [kind |-> "stop", qid |-> q, target |-> 0]
NavCont(q, i) == [kind |-> "nav", qid |-> q, target |-> i]
SubmitCont(q) == [kind |-> "submit", qid |-> q, target |-> 0]

\* api/store-interview before any request: which revision of the handler is
\* deployed, whether BLOB_READ_WRITE_TOKEN is set, the request being served
\* and its response, and the pathnames the blob store holds
NoRequest == [method |-> "none", bodyLen |-> 0, xFilename |-> <<>>, xMetaOk |-> TRUE]
NoResponse == [status |-> 0, url |-> <<>>, error |-> "none"]
IdleHandler == [revision |-> "api", hasToken |-> TRUE, pc |-> "idle", req |-> NoRequest,
                fileName |-> <<>>, res |-> NoResponse, store |-> {},
                puts |-> 0,            \* put() calls made for the request
                putOk |-> FALSE]       \* the put() of the request resolved

\* template.autoUploadOnFinish and whether template.driveClientId is set:
\* both unset
PlainTemplate == [autoUploadOnFinish |-> FALSE, driveClientId |-> FALSE]

NoTake == [q |-> Null, pc |-> "unused", mr |-> "none", onstop |-> NoCont,
           timeout |-> "none", interval |-> "none",
           snapRqid |-> Null, snapRecorder |-> Null, snapRecording |-> FALSE,
           stopCalls |-> 0, writes |-> 0,
           snapClips |-> <<>>,                \* clips captured by the closure (auto-upload revision)
           snapChunks |-> <<>>,               \* chunks captured by the closure (auto-upload revision)
           alerted |-> FALSE]                 \* the catch of recordAnswer has shown its alert

VARIABLES
    stream,               \* useRecorder: stream (the MediaStream held, by its id) or Null
    liveTracks,           \* the acquired MediaStreams whose tracks have not been stopped
    mountReq,             \* the request() of the mount effect: "pending" | "granted" | "denied"
    mounted,              \* the CandidateView is mounted
    stopTracksCalls,      \* the stopTracks() calls of the running task, by the stream each closure held
    prompts,              \* template.questions[i].prompt, by 1-based index, as sequences of characters
    template,             \* the template's fields read by the auto-upload revision only
    handler,              \* api/store-interview: the invocation being served, and the blob store
    recorder,             \* useRecorder: recorder (the take that created it) or Null
    recording,            \* useRecorder: recording
    chunks,               \* chunksRef.current
    clips,                \* CandidateView: clips, by question id
    recordingQuestionId,  \* CandidateView: recordingQuestionId
    recordingTimeLeft,    \* CandidateView: recordingTimeLeft
    currentQuestion,      \* CandidateView: currentQuestion (0-based)
    takes,                \* one record per recordAnswer invocation
    winTimeout,           \* window.currentRecordingTimeout
    winInterval,          \* window.currentRecordingInterval
    driveStatus,          \* CandidateView: driveStatus
    run                   \* the exportAndUpload invocation

vars == <<stream, liveTracks, mountReq, mounted, stopTracksCalls, prompts, template, handler, recorder, recording, chunks, clips,
          recordingQuestionId,
          recordingTimeLeft, currentQuestion, takes, winTimeout, winInterval,
          driveStatus, run>>

recVars == <<stream, liveTracks, mountReq, mounted, stopTracksCalls, prompts, template, handler, recorder, recording, chunks, clips,
             recordingQuestionId,
             recordingTimeLeft, currentQuestion, takes, winTimeout, winInterval>>

\* ------------------------------------------------------- derived (render)
currentQ == QuestionAt(currentQuestion)
currentClip == FindClip(clips, currentQ)
\* cl.filter(c => c.blob).length
AnsweredCountOf(cl) == Len(SelectSeq(cl, SlotHasBlob))
answeredCount == AnsweredCountOf(clips)
\* a completeness test that counts the required questions only
allAnsweredRequiredOnly == \A q \in Questions : required[q] => FindClip(clips, q).hasBlob

allAnswered == answeredCount = NumQuestions
\* template.questions.every(qq => next.find(c => c.qid === qq.id)?.blob)
AllDone(next) == \A qq \in Questions : FindClip(next, qq).hasBlob

FreeTakes == {t \in Takes : takes[t].pc = "unused"}
NextTake == CHOOSE t \in FreeTakes : \A u \in FreeTakes : t <= u

\* ------------------------------------------------------ submission values
NoError == [attempt |-> 0, kind |-> "none"]
NoAlert == [kind |-> "none", error |-> NoError]
NoSummary == [totalQuestions |-> 0, answeredQuestions |-> 0,
              hasAnswer |-> [q \in Questions |-> FALSE]]

\* no other exportAndUpload invocation
NoRun == [pc |-> "none"]

IdleRun == [pc |-> "idle",
            other |-> NoRun,                          \* an invocation started before this one ended,
                                                      \* at the await it is suspended in
            auto |-> FALSE,                           \* started by the setClips updater (auto-upload revision)
            clips |-> InitialClips,                   \* clips captured by the closure
            answeredCount |-> 0,                      \* answeredCount captured by the closure
            stoppedFor |-> Null,                      \* question being recorded at the click
            mergedBlob |-> NoClip, mergeTried |-> FALSE,
            mergeFailedAt |-> "none",                 \* the merge stage that threw
            mergeInputs |-> <<>>,                     \* the questions whose clips are the inputs of the merge
            threw |-> "none",                         \* "import" | "generate": what the outer catch caught
            zip |-> <<>>, built |-> FALSE,
            blob |-> [type |-> "none", entries |-> <<>>],       \* const blob (line 759)
            fileName |-> [parts |-> <<>>, computedAt |-> 0],     \* const fileName (line 762)
            sent |-> {}, saved |-> {},                \* what the POSTs carried, what a.click() saved
            attempt |-> 0, uploadSuccess |-> FALSE, lastError |-> NoError,
            posts |-> 0, okSeen |-> FALSE, postAfterOk |-> FALSE,
            notifies |-> 0, lists |-> 0, downloads |-> 0,
            notified |-> "none",                      \* how the notification call settled
            listResp |-> "none",                      \* how the listing call settled
            listed |-> FALSE,                         \* the listing held the stored file
            alert |-> NoAlert, outcome |-> "none"]

\* ------------------------------------------------------------------ Init
Init ==
    /\ stream = Null
    /\ liveTracks = {}
    /\ mountReq = "pending"
    /\ mounted = TRUE
    /\ stopTracksCalls = <<>>
    /\ prompts = DefaultPrompts
    /\ template = PlainTemplate
    /\ handler = IdleHandler
    /\ recorder = Null
    /\ recording = FALSE
    /\ chunks = <<>>
    /\ clips = InitialClips
    /\ recordingQuestionId = Null
    /\ recordingTimeLeft = 0
    /\ currentQuestion = 0
    /\ takes = [t \in Takes |-> NoTake]
    /\ winTimeout = Null
    /\ winInterval = Null
    /\ driveStatus = ""
    /\ run = IdleRun

\* ------------------------------------------------- mount effect: request()
MountGranted ==
    /\ mountReq = "pending"
    /\ mountReq' = "granted"
    /\ stream' = MountStream
    /\ liveTracks' = liveTracks \cup {MountStream}
    /\ UNCHANGED <<mounted, stopTracksCalls, prompts, template, handler, recorder, recording, chunks, clips, recordingQuestionId, recordingTimeLeft,
                   currentQuestion, takes, winTimeout, winInterval, driveStatus, run>>

MountDenied ==
    /\ mountReq = "pending"
    /\ mountReq' = "denied"
    /\ UNCHANGED <<stream, liveTracks, mounted, stopTracksCalls, prompts, template, handler, recorder, recording, chunks, clips, recordingQuestionId,
                   recordingTimeLeft, currentQuestion, takes, winTimeout, winInterval,
                   driveStatus, run>>

\* ----------------------------------------------------------- recordAnswer
\* The Start button of the question panel is rendered and enabled.
StartEnabled ==
    /\ ~currentClip.hasBlob
    /\ recordingQuestionId # currentQ
    /\ ~(recording \/ recordingQuestionId # Null)

\* The take after mr.start(), setRecorder, setRecording and the two timers.
ArmedTake(tk) ==
    [tk EXCEPT !.pc = "started", !.mr = "recording", !.timeout = "armed", !.interval = "armed"]

\* recordAnswer(currentQ) with a stream already held: start() runs to its end
\* without suspending, then the timers are armed.
StartClickSync ==
    /\ StartEnabled
    /\ stream # Null
    /\ FreeTakes # {}
    /\ LET t == NextTake
           q == currentQ
           tk == [NoTake EXCEPT !.q = q, !.snapRqid = recordingQuestionId,
                                !.snapRecorder = recorder, !.snapRecording = recording]
       IN  /\ recordingQuestionId' = q
           /\ recordingTimeLeft' = TimeLimitOf(q)
           /\ chunks' = <<>>
           /\ takes' = [takes EXCEPT ![t] = ArmedTake(tk)]
           /\ recorder' = t
           /\ recording' = TRUE
           /\ winTimeout' = t
           /\ winInterval' = t
    /\ UNCHANGED <<stream, liveTracks, mountReq, mounted, stopTracksCalls, prompts, template, handler, clips, currentQuestion, driveStatus, run>>

\* recordAnswer(currentQ) where new MediaRecorder / mr.start() throws: catch.
StartClickThrows ==
    /\ StartEnabled
    /\ stream # Null
    /\ FreeTakes # {}
    /\ LET t == NextTake
           q == currentQ
       IN  /\ recordingQuestionId' = Null
           /\ recordingTimeLeft' = TimeLimitOf(q)
           /\ chunks' = <<>>
           /\ takes' = [takes EXCEPT ![t] = [NoTake EXCEPT !.q = q, !.pc = "failed",
                                   !.alerted = TRUE,
                                   !.snapRqid = recordingQuestionId,
                                   !.snapRecorder = recorder, !.snapRecording = recording]]
    /\ UNCHANGED <<stream, liveTracks, mountReq, mounted, stopTracksCalls, prompts, template, handler, recorder, recording, clips, currentQuestion,
                   winTimeout, winInterval, driveStatus, run>>

\* recordAnswer(currentQ) with no stream in the closure: start() suspends in
\* request() until the device answers.
StartClickArming ==
    /\ StartEnabled
    /\ stream = Null
    /\ FreeTakes # {}
    /\ LET t == NextTake
           q == currentQ
       IN  /\ recordingQuestionId' = q
           /\ recordingTimeLeft' = TimeLimitOf(q)
           /\ chunks' = <<>>
           /\ takes' = [takes EXCEPT ![t] = [NoTake EXCEPT !.q = q, !.pc = "arming",
                                   !.snapRqid = recordingQuestionId,
                                   !.snapRecorder = recorder, !.snapRecording = recording]]
    /\ UNCHANGED <<stream, liveTracks, mountReq, mounted, stopTracksCalls, prompts, template, handler, recorder, recording, clips, currentQuestion,
                   winTimeout, winInterval, driveStatus, run>>

\* request() of a suspended start() resolves: the rest of start() and of
\* recordAnswer run.
ArmResolve(t) ==
    /\ takes[t].pc = "arming"
    /\ stream' = t
    /\ liveTracks' = liveTracks \cup {t}
    /\ takes' = [takes EXCEPT ![t] = ArmedTake(@)]
    /\ recorder' = t
    /\ recording' = TRUE
    /\ winTimeout' = t
    /\ winInterval' = t
    /\ UNCHANGED <<mountReq, mounted, stopTracksCalls, prompts, template, handler, chunks, clips, recordingQuestionId, recordingTimeLeft,
                   currentQuestion, driveStatus, run>>

\* a catch that alerts and leaves the marker on the question
ArmRejectKeepsMarker(t, gotStream) ==
    /\ takes[t].pc = "arming"
    /\ stream' = IF gotStream THEN t ELSE stream
    /\ liveTracks' = IF gotStream THEN liveTracks \cup {t} ELSE liveTracks
    /\ takes' = [takes EXCEPT ![t].pc = "failed", ![t].alerted = TRUE]
    /\ UNCHANGED recordingQuestionId
    /\ UNCHANGED <<mountReq, mounted, stopTracksCalls, prompts, template, handler, recorder, recording, chunks, clips,
                   recordingTimeLeft, currentQuestion, winTimeout, winInterval, driveStatus, run>>

\* request() of a suspended start() rejects (gotStream = FALSE) or the
\* recorder cannot be constructed on the stream it returned: catch.
ArmReject(t, gotStream) ==
    /\ takes[t].pc = "arming"
    /\ stream' = IF gotStream THEN t ELSE stream
    /\ liveTracks' = IF gotStream THEN liveTracks \cup {t} ELSE liveTracks
    /\ takes' = [takes EXCEPT ![t].pc = "failed", ![t].alerted = TRUE]
    /\ recordingQuestionId' = Null
    /\ UNCHANGED <<mountReq, mounted, stopTracksCalls, prompts, template, handler, recorder, recording, chunks, clips, recordingTimeLeft,
                   currentQuestion, winTimeout, winInterval, driveStatus, run>>

\* ----------------------------------------------------------- stopRecording
\* clearTimeout / clearInterval of a timer: only a pending timer is affected
Cleared(timer) == IF timer = "armed" THEN "cleared" ELSE timer

\* clearTimeout(window.currentRecordingTimeout); clearInterval(window.currentRecordingInterval)
ClearWindowTimers(tk) ==
    [t \in Takes |-> [tk[t] EXCEPT !.timeout = IF t = winTimeout THEN Cleared(@) ELSE @,
                                   !.interval = IF t = winInterval THEN Cleared(@) ELSE @]]

\* useRecorder.stop returns null at once: if (!recorder || !recording) return null
StopReturnsNull(sRecorder, sRecording) == IF sRecorder = Null THEN TRUE ELSE ~sRecording

\* MediaRecorder.stop(): a recorder that is not recording ignores the call;
\* otherwise it becomes inactive and its dataavailable and stop events are queued.
MediaRecorderStop(tk) ==
    [tk EXCEPT !.mr = IF @ = "recording" THEN "stopping" ELSE @,
               !.stopCalls = Min(@ + 1, MaxStopCalls)]

\* The code that awaited stopRecording resumes: the Stop button has nothing
\* more to do, Previous/Next set currentQuestion, exportAndUpload goes on to
\* 'Preparing export...'.
Continue(cont, r) ==
    /\ currentQuestion' = IF cont.kind = "nav" THEN cont.target ELSE currentQuestion
    /\ run' = IF cont.kind = "submit" THEN [r EXCEPT !.pc = "preparing"] ELSE r
    /\ driveStatus' = IF cont.kind = "submit" THEN "Preparing export..." ELSE driveStatus

\* stopRecording(questionId) as seen by a closure that captured
\* recordingQuestionId = sRqid, recorder = sRecorder, recording = sRecording;
\* tk and r are the takes table and the run as the caller has already updated
\* them, cont is the caller.
StopRecording(sRqid, sRecorder, sRecording, questionId, cont, tk, r) ==
    IF sRqid # questionId
    THEN /\ takes' = tk
         /\ Continue(cont, r)
         /\ UNCHANGED <<recordingQuestionId, recordingTimeLeft>>
    ELSE IF StopReturnsNull(sRecorder, sRecording)
    THEN /\ takes' = ClearWindowTimers(tk)
         /\ recordingQuestionId' = Null
         /\ recordingTimeLeft' = 0
         /\ Continue(cont, r)
    ELSE /\ takes' = [ClearWindowTimers(tk) EXCEPT
                         ![sRecorder] = [MediaRecorderStop(@) EXCEPT !.onstop = cont]]
         /\ run' = r
         /\ UNCHANGED <<recordingQuestionId, recordingTimeLeft, currentQuestion,
                        driveStatus>>

\* The call would invoke MediaRecorder.stop() on a recorder whose call counter
\* is already at its bound.
StopCallsLeft(sRecorder, sRecording) ==
    IF StopReturnsNull(sRecorder, sRecording) THEN TRUE
    ELSE takes[sRecorder].stopCalls < MaxStopCalls

\* Stop Recording button: rendered while the current question is the one
\* being recorded and has no clip.
StopClick ==
    /\ ~currentClip.hasBlob
    /\ recordingQuestionId = currentQ
    /\ StopCallsLeft(recorder, recording)
    /\ StopRecording(recordingQuestionId, recorder, recording, currentQ,
                     StopCont(currentQ), takes, run)
    /\ UNCHANGED <<stream, liveTracks, mountReq, mounted, stopTracksCalls, prompts, template, handler, recorder, recording, chunks, clips,
                   winTimeout, winInterval>>

\* ensureRecordingStopped() as seen by the latest render, called by cont.
EnsureRecordingStopped(cont, r) ==
    IF recordingQuestionId # Null
    THEN StopRecording(recordingQuestionId, recorder, recording, recordingQuestionId,
                       cont, takes, r)
    ELSE /\ Continue(cont, r)
         /\ UNCHANGED <<takes, recordingQuestionId, recordingTimeLeft>>

\* Previous button
PrevClick ==
    /\ currentQuestion # 0
    /\ StopCallsLeft(recorder, recording)
    /\ EnsureRecordingStopped(NavCont(recordingQuestionId, Max(0, currentQuestion - 1)), run)
    /\ UNCHANGED <<stream, liveTracks, mountReq, mounted, stopTracksCalls, prompts, template, handler, recorder, recording, chunks, clips,
                   winTimeout, winInterval>>

\* Next button
NextClick ==
    /\ currentQuestion # NumQuestions - 1
    /\ StopCallsLeft(recorder, recording)
    /\ EnsureRecordingStopped(NavCont(recordingQuestionId,
                                      Min(NumQuestions - 1, currentQuestion + 1)), run)
    /\ UNCHANGED <<stream, liveTracks, mountReq, mounted, stopTracksCalls, prompts, template, handler, recorder, recording, chunks, clips,
                   winTimeout, winInterval>>

\* a stop handler that builds the Blob and leaves the fragments in the buffer
RecorderStopEventKeepsBuffer(t, hasData) ==
    /\ takes[t].mr = "stopping"
    /\ LET delivered == IF hasData THEN Append(chunks, t) ELSE chunks
           cont == takes[t].onstop
       IN  IF cont.kind = "none"
           THEN /\ chunks' = delivered
                /\ takes' = [takes EXCEPT ![t].mr = "inactive"]
                /\ UNCHANGED <<recorder, recording, clips, recordingQuestionId,
                               recordingTimeLeft, currentQuestion, run, driveStatus>>
           ELSE /\ recording' = FALSE
                /\ recorder' = Null
                /\ chunks' = delivered
                /\ recordingQuestionId' = Null
                /\ recordingTimeLeft' = 0
                /\ clips' = StoreBlob(clips, cont.qid, delivered)
                /\ takes' = [takes EXCEPT ![t].mr = "inactive", ![t].onstop = NoCont,
                                          ![t].writes = @ + 1]
                /\ Continue(cont, run)
    /\ UNCHANGED <<stream, liveTracks, mountReq, mounted, stopTracksCalls, prompts, template, handler, winTimeout, winInterval>>

\* The stop event of recorder t is dispatched. dataavailable comes first and
\* pushes the recorded data unless it is empty (hasData = FALSE); then the
\* onstop handler installed by useRecorder.stop, if any, builds the Blob and
\* resolves, and stopRecording and its caller run to their end.
RecorderStopEvent(t, hasData) ==
    /\ takes[t].mr = "stopping"
    /\ LET delivered == IF hasData THEN Append(chunks, t) ELSE chunks
           cont == takes[t].onstop
       IN  IF cont.kind = "none"
           THEN /\ chunks' = delivered
                /\ takes' = [takes EXCEPT ![t].mr = "inactive"]
                /\ UNCHANGED <<recorder, recording, clips, recordingQuestionId,
                               recordingTimeLeft, currentQuestion, run, driveStatus>>
           ELSE /\ recording' = FALSE
                /\ recorder' = Null
                /\ chunks' = <<>>
                /\ recordingQuestionId' = Null
                /\ recordingTimeLeft' = 0
                /\ clips' = StoreBlob(clips, cont.qid, delivered)
                /\ takes' = [takes EXCEPT ![t].mr = "inactive", ![t].onstop = NoCont,
                                          ![t].writes = @ + 1]
                /\ Continue(cont, run)
    /\ UNCHANGED <<stream, liveTracks, mountReq, mounted, stopTracksCalls, prompts, template, handler, winTimeout, winInterval>>

\* ------------------------------------------------------------------ timers
\* a tick that subtracts one whatever the value is and never stops the interval
CountdownTickNoFloor(t) ==
    /\ takes[t].interval = "armed"
    /\ recordingTimeLeft > -2
    /\ recordingTimeLeft' = recordingTimeLeft - 1
    /\ UNCHANGED <<stream, liveTracks, mountReq, mounted, stopTracksCalls, prompts, template, handler, recorder, recording,
                   chunks, clips, recordingQuestionId, currentQuestion, takes, winTimeout,
                   winInterval, driveStatus, run>>

\* One tick of the countdown interval armed by take t.
CountdownTick(t) ==
    /\ takes[t].interval = "armed"
    /\ recordingTimeLeft' = IF recordingTimeLeft <= 1 THEN 0 ELSE recordingTimeLeft - 1
    /\ takes' = [takes EXCEPT ![t].interval = IF recordingTimeLeft <= 1 THEN Cleared(@) ELSE @]
    /\ UNCHANGED <<stream, liveTracks, mountReq, mounted, stopTracksCalls, prompts, template, handler, recorder, recording, chunks, clips, recordingQuestionId,
                   currentQuestion, winTimeout, winInterval, driveStatus, run>>

\* The auto-stop timeout armed by take t fires: clearInterval, then the
\* stopRecording of the render in which recordAnswer was invoked.
AutoStopTimeout(t) ==
    /\ takes[t].timeout = "armed"
    /\ StopCallsLeft(takes[t].snapRecorder, takes[t].snapRecording)
    /\ StopRecording(takes[t].snapRqid, takes[t].snapRecorder, takes[t].snapRecording,
                     takes[t].q, StopCont(takes[t].q),
                     [takes EXCEPT ![t].timeout = "fired", ![t].interval = Cleared(@)], run)
    /\ UNCHANGED <<stream, liveTracks, mountReq, mounted, stopTracksCalls, prompts, template, handler, recorder, recording, chunks, clips,
                   winTimeout, winInterval>>

\* a Re-record that discards every answer
ReRecordClickClearsAll ==
    /\ currentClip.hasBlob
    /\ clips' = InitialClips
    /\ UNCHANGED <<stream, liveTracks, mountReq, mounted, stopTracksCalls, prompts, template, handler, recorder, recording,
                   chunks, recordingQuestionId, recordingTimeLeft, currentQuestion, takes,
                   winTimeout, winInterval, driveStatus, run>>

\* Re-record button: rendered while the current question has a clip.
ReRecordClick ==
    /\ currentClip.hasBlob
    /\ clips' = ClearBlob(clips, currentQ)
    /\ UNCHANGED <<stream, liveTracks, mountReq, mounted, stopTracksCalls, prompts, template, handler, recorder, recording, chunks, recordingQuestionId,
                   recordingTimeLeft, currentQuestion, takes, winTimeout, winInterval,
                   driveStatus, run>>

\* ------------------------------------------------------------- stopTracks
\* The stream seen by the stopTracks of the first render, the one the cleanup
\* of the mount effect (dependency list []) keeps calling: useState(null).
FirstRenderStream == Null

\* a stopTracks whose t.stop() restarts a track that is already stopped
StopTracksRestarts(closureStream) ==
    /\ liveTracks' = IF closureStream = Null THEN liveTracks
                      ELSE IF closureStream \in liveTracks THEN liveTracks \ {closureStream}
                      ELSE liveTracks \cup {closureStream}
    /\ stream' = Null
    /\ stopTracksCalls' = Append(stopTracksCalls, closureStream)

\* stopTracks() of a render whose closure holds closureStream:
\* stream?.getTracks().forEach(t => t.stop()); setStream(null)
StopTracks(closureStream) ==
    /\ liveTracks' = IF closureStream = Null THEN liveTracks ELSE liveTracks \ {closureStream}
    /\ stream' = Null
    /\ stopTracksCalls' = Append(stopTracksCalls, closureStream)

\* The closures a stopTracks() call can come from: the handler that made the
\* previous call of this task (its stream is the one it captured), or a handler of
\* the latest render.
CallerStreams ==
    IF stopTracksCalls = <<>> THEN {stream}
    ELSE {stopTracksCalls[Len(stopTracksCalls)], stream}

\* A caller invokes stopTracks().
StopTracksCall(closureStream) ==
    /\ mounted
    /\ Len(stopTracksCalls) < MaxStopTracksCalls
    /\ closureStream \in CallerStreams
    /\ StopTracks(closureStream)
    /\ UNCHANGED <<prompts, template, handler, mountReq, mounted, recorder, recording, chunks, clips, recordingQuestionId,
                   recordingTimeLeft, currentQuestion, takes, winTimeout, winInterval,
                   driveStatus, run>>

\* The task that called stopTracks() ends.
StopTracksReturn ==
    /\ stopTracksCalls # <<>>
    /\ stopTracksCalls' = <<>>
    /\ UNCHANGED <<stream, liveTracks, mountReq, mounted, prompts, template, handler, recorder, recording, chunks,
                   clips, recordingQuestionId, recordingTimeLeft, currentQuestion, takes,
                   winTimeout, winInterval, driveStatus, run>>

\* The CandidateView unmounts (Back to Templates, or the tab bar of the admin
\* interface): the cleanup of the mount effect runs.
Unmount ==
    /\ mounted
    /\ mounted' = FALSE
    /\ StopTracks(FirstRenderStream)
    /\ UNCHANGED <<prompts, template, handler, mountReq, recorder, recording, chunks, clips, recordingQuestionId,
                   recordingTimeLeft, currentQuestion, takes, winTimeout, winInterval,
                   driveStatus, run>>

\* ---------------------------------------------------------- exportAndUpload
\* recorded.filter(rc => rc.clip?.blob): the answered clips in template order
Recorded(cl) ==
    [i \in 1..NumQuestions |-> [q |-> QuestionAt(i - 1), clip |-> FindClip(cl, QuestionAt(i - 1))]]
HasBlob(rc) == rc.clip.hasBlob
\* a list that keeps the questions without an answer
VideoClipsUnfiltered(cl) == Recorded(cl)
VideoClips(cl) == SelectSeq(Recorded(cl), HasBlob)
\* the questions behind input0.webm, input1.webm, ... of the merge
InputsOf(vc) == [i \in 1..Len(vc) |-> vc[i].q]

\* the output of the ffmpeg concat of the inputs, in input order
RECURSIVE ConcatClips(_)
ConcatClips(vc) == IF vc = <<>> THEN <<>> ELSE Head(vc).clip.blob \o ConcatClips(Tail(vc))

\* archive entry names
\* an entry name that leaves the index out
QuestionEntryNameNoIndex(i) ==
    <<"Q", "_">> \o Sanitize(Slice(prompts[i], PromptPrefixLen)) \o WebmExt

\* `Q${i+1}_${q.prompt.slice(0,30).replace(/[^a-zA-Z0-9]/g,'_')}.webm`, i being
\* the 1-based index here
QuestionEntryName(i) ==
    <<"Q">> \o Decimal(i) \o <<"_">> \o Sanitize(Slice(prompts[i], PromptPrefixLen)) \o WebmExt
\* `ALL_${template.company||'company'}_${template.role||'role'}.webm`
MergedEntryName == <<"A", "L", "L", "_">> \o Company \o <<"_">> \o Role \o WebmExt
\* 'interview_summary.json'
SummaryEntryName ==
    <<"i", "n", "t", "e", "r", "v", "i", "e", "w", "_", "s", "u", "m", "m", "a", "r", "y",
      ".", "j", "s", "o", "n">>

\* zip.file(name, data): a name already in the archive is replaced
ZipFile(zip, name, blob, summary) ==
    LET e == [name |-> name, blob |-> blob, summary |-> summary]
    IN  IF \E i \in 1..Len(zip) : zip[i].name = name
        THEN [i \in 1..Len(zip) |-> IF zip[i].name = name THEN e ELSE zip[i]]
        ELSE Append(zip, e)

\* template.questions.forEach((q, i) => { if (clip?.blob) zip.file(...) }), from index i on
RECURSIVE AddQuestionEntries(_, _, _)
AddQuestionEntries(zip, cl, i) ==
    IF i > NumQuestions THEN zip
    ELSE LET clip == FindClip(cl, QuestionAt(i - 1))
         IN  AddQuestionEntries(IF clip.hasBlob
                                THEN ZipFile(zip, QuestionEntryName(i), clip.blob, NoSummary)
                                ELSE zip, cl, i + 1)

\* a summary that reports every question as answered
SummaryOfCountsAll(cl) == [totalQuestions |-> NumQuestions,
                           answeredQuestions |-> NumQuestions,
                           hasAnswer |-> [q \in Questions |-> FindClip(cl, q).hasBlob]]

\* the summary object written as interview_summary.json
SummaryOf(cl) == [totalQuestions |-> NumQuestions,
                  answeredQuestions |-> Len(SelectSeq(cl, SlotHasBlob)),
                  hasAnswer |-> [q \in Questions |-> FindClip(cl, q).hasBlob]]

\* an archive that gets the merged entry whether or not a merged clip exists
BuildZipAlwaysMerged(cl, merged) ==
    LET z1 == AddQuestionEntries(<<>>, cl, 1)
        z2 == ZipFile(z1, MergedEntryName, merged.blob, NoSummary)
    IN  ZipFile(z2, SummaryEntryName, <<>>, SummaryOf(cl))

\* the archive as filled between the merge and generateAsync
BuildZip(cl, merged) ==
    LET z1 == AddQuestionEntries(<<>>, cl, 1)
        z2 == IF merged.hasBlob THEN ZipFile(z1, MergedEntryName, merged.blob, NoSummary) ELSE z1
    IN  ZipFile(z2, SummaryEntryName, <<>>, SummaryOf(cl))

\* exportAndUpload is invoked. The run reads clips and answeredCount of the
\* render whose handler was invoked. One invocation at a time is modelled:
\* the next one starts when the previous one has ended.
ExportAndUpload ==
    /\ run.pc \in {"idle", "done"}
    /\ StopCallsLeft(recorder, recording)
    /\ EnsureRecordingStopped(SubmitCont(recordingQuestionId),
            [IdleRun EXCEPT !.pc = "stopping", !.clips = clips,
                            !.answeredCount = answeredCount,
                            !.stoppedFor = IF /\ recordingQuestionId # Null
                                              /\ ~StopReturnsNull(recorder, recording)
                                              /\ takes[recorder].mr = "recording"
                                              /\ takes[recorder].q = recordingQuestionId
                                           THEN recordingQuestionId ELSE Null])
    /\ UNCHANGED <<stream, liveTracks, mountReq, mounted, stopTracksCalls, prompts, template, handler, recorder, recording, chunks, clips,
                   winTimeout, winInterval>>

\* Submit Interview button: disabled while nothing is answered
ExportClick ==
    /\ answeredCount # 0
    /\ ExportAndUpload

\* an outer catch that ends the run without telling the user
ExportFailedSilently(r) ==
    /\ run' = [r EXCEPT !.pc = "done", !.outcome = "exportFailed"]
    /\ UNCHANGED driveStatus

\* catch of the outer try: 'Export failed'
ExportFailed(r) ==
    /\ run' = [r EXCEPT !.pc = "done", !.outcome = "exportFailed",
                        !.alert = [kind |-> "exportFailed", error |-> NoError]]
    /\ driveStatus' = "Export failed - please try again"

\* entries, summary, then zip.generateAsync is awaited
FillZip(r, merged) == [r EXCEPT !.pc = "generating", !.mergedBlob = merged,
                                !.zip = BuildZip(r.clips, merged)]

\* a packaging step that merges two or more clips and otherwise has no merged clip
PreparingNoSingleMerged(ok) ==
    /\ run.pc = "preparing"
    /\ IF ~ok THEN ExportFailed([run EXCEPT !.threw = "import"])
       ELSE LET videoClips == VideoClips(run.clips)
            IN  IF Len(videoClips) > 1
                THEN /\ run' = [run EXCEPT !.pc = "merging", !.mergeTried = TRUE,
                                           !.mergeInputs = InputsOf(videoClips)]
                     /\ driveStatus' = "Merging videos..."
                ELSE /\ run' = FillZip(run, NoClip)
                     /\ UNCHANGED driveStatus
    /\ UNCHANGED recVars

\* import('jszip') resolves (ok) or rejects
Preparing(ok) ==
    /\ run.pc = "preparing"
    /\ IF ~ok THEN ExportFailed([run EXCEPT !.threw = "import"])
       ELSE LET videoClips == VideoClips(run.clips)
            IN  IF Len(videoClips) > 1
                THEN /\ run' = [run EXCEPT !.pc = "merging", !.mergeTried = TRUE,
                                           !.mergeInputs = InputsOf(videoClips)]
                     /\ driveStatus' = "Merging videos..."
                ELSE IF Len(videoClips) = 1
                THEN /\ run' = FillZip(run, ClipOf(videoClips[1].clip.blob))
                     /\ UNCHANGED driveStatus
                ELSE /\ run' = FillZip(run, NoClip)
                     /\ UNCHANGED driveStatus
    /\ UNCHANGED recVars

\* The stages of the merge: load, writeFile of the inputs and of the list, exec, readFile
MergeStages == {"load", "writeFile", "exec", "readFile"}

\* a merge whose failure is caught by the outer catch
MergingFailureFatal(failedAt) ==
    /\ run.pc = "merging"
    /\ IF failedAt = "none"
       THEN /\ run' = FillZip(run, ClipOf(ConcatClips(VideoClips(run.clips))))
            /\ driveStatus' = "Videos merged successfully!"
       ELSE ExportFailed([run EXCEPT !.mergeFailedAt = failedAt])
    /\ UNCHANGED recVars

\* The merge ends: all stages passed (failedAt = "none") or one of them threw
Merging(failedAt) ==
    /\ run.pc = "merging"
    /\ IF failedAt = "none"
       THEN /\ run' = FillZip(run, ClipOf(ConcatClips(VideoClips(run.clips))))
            /\ driveStatus' = "Videos merged successfully!"
       ELSE /\ run' = FillZip([run EXCEPT !.mergeFailedAt = failedAt], NoClip)
            /\ driveStatus' = "Video merge failed, packaging individual files..."
    /\ UNCHANGED recVars

\* fileName.split('/'): the file name at line 762 has one part unless the
\* company or the role contains a '/'
FileNameParts == <<"interview.zip">>
\* zip.generateAsync({type:'blob'}): the archive holding the entries of the zip
ArchiveOf(zip) == [type |-> "blob", entries |-> zip]
\* the file name, built from the clock reading taken when k attempts had been made
FileNameAt(k) == [parts |-> FileNameParts, computedAt |-> k]
\* body and x-filename of a POST; href and download of the saved link
Payload(r) == [blob |-> r.blob, fileName |-> r.fileName]

\* an attempt that computes the file name anew before it posts
SendAttemptRebuildsName(r, a) ==
    [r EXCEPT !.pc = "uploading", !.attempt = a, !.posts = @ + 1,
              !.postAfterOk = @ \/ r.okSeen,
              !.fileName = FileNameAt(a - 1),
              !.sent = @ \cup {[blob |-> r.blob, fileName |-> FileNameAt(a - 1)]}]

\* fetch('/api/store-interview', POST) is issued for attempt a
SendAttempt(r, a) == [r EXCEPT !.pc = "uploading", !.attempt = a, !.posts = @ + 1,
                               !.postAfterOk = @ \/ r.okSeen,
                               !.sent = @ \cup {Payload(r)}]

\* zip.generateAsync resolves (ok) or rejects
Generating(ok) ==
    /\ run.pc = "generating"
    /\ IF ~ok THEN ExportFailed([run EXCEPT !.threw = "generate"])
       ELSE /\ run' = SendAttempt([run EXCEPT !.built = TRUE, !.blob = ArchiveOf(run.zip),
                                               !.fileName = FileNameAt(0)], 1)
            /\ driveStatus' = "Submitting interview..."
    /\ UNCHANGED recVars

\* the fallback branch without the a.click() of the local download
LocalFallbackNoSave(r) ==
    /\ run' = [r EXCEPT !.pc = "done", !.outcome = "uploadFailed",
                        !.alert = [kind |-> "uploadFailedSaved", error |-> r.lastError]]
    /\ driveStatus' = "Upload failed - File downloaded locally"

\* if (!uploadSuccess) { ... }: local download, status and alert
LocalFallback(r) ==
    /\ run' = [r EXCEPT !.pc = "done", !.outcome = "uploadFailed", !.downloads = @ + 1,
                        !.saved = @ \cup {Payload(r)},
                        !.alert = [kind |-> "uploadFailedSaved", error |-> r.lastError]]
    /\ driveStatus' = "Upload failed - File downloaded locally"

\* a retry loop that ends after the last failed attempt without the fallback branch
AttemptFailedGivesUp(r, k) ==
    LET r2 == [r EXCEPT !.lastError = [attempt |-> r.attempt, kind |-> k]]
    IN  IF r.attempt < MaxAttempts
        THEN /\ run' = [r2 EXCEPT !.pc = "delay"]
             /\ UNCHANGED driveStatus
        ELSE /\ run' = [r2 EXCEPT !.pc = "done", !.outcome = "uploadFailed"]
             /\ UNCHANGED driveStatus

\* Attempt a failed with error kind k: lastError is set, then the 2 s delay or the end of the loop
AttemptFailed(r, k) ==
    LET r2 == [r EXCEPT !.lastError = [attempt |-> r.attempt, kind |-> k]]
    IN  IF r.attempt < MaxAttempts
        THEN /\ run' = [r2 EXCEPT !.pc = "delay"]
             /\ UNCHANGED driveStatus
        ELSE LocalFallback(r2)

\* The POST of the current attempt settles:
\*   "ok"       2xx and the body parses
\*   "badBody"  2xx and uploadResponse.json() rejects
\*   "status"   non-2xx
\*   "network"  fetch rejects
UploadResponses == {"ok", "badBody", "status", "network"}

\* a success branch that saves the archive as soon as the store has answered,
\* before the save that follows the notification
UploadingSavesAtOnce(resp) ==
    /\ run.pc = "uploading"
    /\ IF resp = "ok"
       THEN /\ run' = [run EXCEPT !.pc = "notifying", !.okSeen = TRUE, !.uploadSuccess = TRUE,
                                  !.notifies = @ + 1, !.downloads = @ + 1,
                                  !.saved = @ \cup {Payload(run)}]
            /\ driveStatus' = "Interview submitted successfully!"
       ELSE AttemptFailed([run EXCEPT !.okSeen = @ \/ (resp = "badBody")], resp)
    /\ UNCHANGED recVars

Uploading(resp) ==
    /\ run.pc = "uploading"
    /\ IF resp = "ok"
       THEN /\ run' = [run EXCEPT !.pc = "notifying", !.okSeen = TRUE, !.uploadSuccess = TRUE,
                                  !.notifies = @ + 1]
            /\ driveStatus' = "Interview submitted successfully!"
       ELSE AttemptFailed([run EXCEPT !.okSeen = @ \/ (resp = "badBody")], resp)
    /\ UNCHANGED recVars

\* a retry that packages the answers again before it posts
RetryDelayRepackages ==
    /\ run.pc = "delay"
    /\ run' = [run EXCEPT !.pc = "generating"]
    /\ UNCHANGED <<driveStatus, recVars>>

\* The 2 s delay between attempts is over
RetryDelay ==
    /\ run.pc = "delay"
    /\ run' = SendAttempt(run, run.attempt + 1)
    /\ UNCHANGED <<driveStatus, recVars>>

\* a notification whose failure is handled as a failed upload attempt
NotifyingFailureRetries(ok) ==
    /\ run.pc = "notifying"
    /\ IF ok
       THEN /\ run' = [run EXCEPT !.pc = "verifying", !.downloads = @ + 1, !.lists = @ + 1,
                                  !.saved = @ \cup {Payload(run)},
                                  !.notified = "ok"]
            /\ UNCHANGED driveStatus
       ELSE AttemptFailed([run EXCEPT !.notified = "failed"], "network")
    /\ UNCHANGED recVars

\* fetch('/api/notify-interviewer') settles either way; the archive is
\* downloaded and the listing is requested
Notifying(ok) ==
    /\ run.pc = "notifying"
    /\ run' = [run EXCEPT !.pc = "verifying", !.downloads = @ + 1, !.lists = @ + 1,
                           !.saved = @ \cup {Payload(run)},
                           !.notified = IF ok THEN "ok" ELSE "failed"]
    /\ UNCHANGED <<driveStatus, recVars>>

\* fileName.split('/')[1], turned into a string by includes()
LookupKey == IF Len(FileNameParts) >= 2 THEN FileNameParts[2] ELSE "undefined"
\* the pathname under which the store keeps the file
StoredPathname == <<"interviews">> \o FileNameParts
Includes(pathname, key) == \E i \in 1..Len(pathname) : pathname[i] = key
Listings == {{}, {StoredPathname}, {StoredPathname, <<"interviews", "other.zip">>}}

\* a verification that treats a file missing from the listing as a failed attempt
VerifyingRevertsWhenNotListed(resp, blobs) ==
    /\ run.pc = "verifying"
    /\ LET found == \E b \in blobs : Includes(b, LookupKey)
       IN  IF resp = "ok" /\ ~found
           THEN AttemptFailed([run EXCEPT !.uploadSuccess = FALSE], "status")
           ELSE /\ run' = [run EXCEPT !.pc = "done", !.outcome = "submitted",
                                      !.listResp = resp,
                                      !.listed = (resp = "ok" /\ StoredPathname \in blobs),
                                      !.alert = [kind |-> "interviewCompleted",
                                                 error |-> NoError]]
                /\ UNCHANGED driveStatus
    /\ UNCHANGED recVars

\* fetch('/api/list-interviews') settles: "ok" with a listing, "nonOk", "throw"
Verifying(resp, blobs) ==
    /\ run.pc = "verifying"
    /\ LET found == \E b \in blobs : Includes(b, LookupKey)
           kind == IF resp = "ok" /\ ~found THEN "uploadMayHaveFailed" ELSE "interviewCompleted"
       IN  run' = [run EXCEPT !.pc = "done", !.outcome = "submitted",
                              !.listResp = resp,
                              !.listed = (resp = "ok" /\ StoredPathname \in blobs),
                              !.alert = [kind |-> kind, error |-> NoError]]
    /\ UNCHANGED <<driveStatus, recVars>>

\* ------------------------------------------------------------------- Next
Next ==
    \/ MountGranted
    \/ MountDenied
    \/ StartClickSync
    \/ StartClickThrows
    \/ StartClickArming
    \/ \E t \in Takes : ArmResolve(t)
    \/ \E t \in Takes, gotStream \in BOOLEAN : ArmReject(t, gotStream)
    \/ StopClick
    \/ PrevClick
    \/ NextClick
    \/ \E t \in Takes, hasData \in BOOLEAN : RecorderStopEvent(t, hasData)
    \/ \E t \in Takes : CountdownTick(t)
    \/ \E t \in Takes : AutoStopTimeout(t)
    \/ ReRecordClick
    \/ ExportClick
    \/ \E ok \in BOOLEAN : Preparing(ok)
    \/ \E failedAt \in MergeStages \cup {"none"} : Merging(failedAt)
    \/ \E ok \in BOOLEAN : Generating(ok)
    \/ \E resp \in UploadResponses : Uploading(resp)
    \/ RetryDelay
    \/ \E ok \in BOOLEAN : Notifying(ok)
    \/ \E resp \in {"ok", "nonOk", "throw"}, blobs \in Listings : Verifying(resp, blobs)

Spec == Init /\ [][Next]_vars

\* The recording controller alone: no submission is started.
NextRec ==
    \/ MountGranted
    \/ MountDenied
    \/ StartClickSync
    \/ StartClickThrows
    \/ StartClickArming
    \/ \E t \in Takes : ArmResolve(t)
    \/ \E t \in Takes, gotStream \in BOOLEAN : ArmReject(t, gotStream)
    \/ StopClick
    \/ PrevClick
    \/ NextClick
    \/ \E t \in Takes, hasData \in BOOLEAN : RecorderStopEvent(t, hasData)
    \/ \E t \in Takes : CountdownTick(t)
    \/ \E t \in Takes : AutoStopTimeout(t)
    \/ ReRecordClick

SpecRec == Init /\ [][NextRec]_vars

\* The recording controller with the packaging half of exportAndUpload: a
\* run goes from the Submit button to the generated archive; nothing is sent.
NextRecPack ==
    \/ NextRec
    \/ ExportClick
    \/ \E ok \in BOOLEAN : Preparing(ok)
    \/ \E failedAt \in MergeStages \cup {"none"} : Merging(failedAt)
    \/ \E ok \in BOOLEAN : Generating(ok)

SpecRecPack == Init /\ [][NextRecPack]_vars

\* ------------------------------------- the candidate view from mount to unmount
NextLife ==
    \/ mounted /\ NextRec
    \/ Unmount

SpecLife == Init /\ [][NextLife]_vars

\* ------------------------------------------- the recording controller and stopTracks
Streams == Takes \cup {MountStream, Null}

NextRelease ==
    \/ stopTracksCalls = <<>> /\ NextRec
    \/ \E closureStream \in Streams : StopTracksCall(closureStream)
    \/ StopTracksReturn

SpecRelease == Init /\ [][NextRelease]_vars

\* ------------------------------------------- the submission pipeline alone
IsInjective(f) == \A i, j \in DOMAIN f : f[i] = f[j] => i = j
Orders == {o \in UNION {[1..n -> Questions] : n \in 1..Min(MaxTakes, NumQuestions)} :
              IsInjective(o)}
RecordedTake(q) == [NoTake EXCEPT !.q = q, !.pc = "started", !.mr = "inactive",
                                  !.timeout = "cleared", !.interval = "cleared",
                                  !.stopCalls = 1, !.writes = 1]

\* The sessions in which the candidate has recorded some questions, one take
\* each, every take started with the stream held and stopped with the Stop
\* button, and nothing is being recorded: order[i] is the question of take i.
SessionState(order, cur) ==
    /\ stream = MountStream
    /\ liveTracks = {MountStream}
    /\ mountReq = "granted"
    /\ mounted = TRUE
    /\ stopTracksCalls = <<>>
    /\ template = PlainTemplate
    /\ handler = IdleHandler
    /\ recorder = Null
    /\ recording = FALSE
    /\ chunks = <<>>
    /\ clips = [q \in Questions |->
                   IF \E i \in DOMAIN order : order[i] = q
                   THEN [EmptySlot(q) EXCEPT !.hasBlob = TRUE,
                            !.blob = <<CHOOSE i \in DOMAIN order : order[i] = q>>]
                   ELSE EmptySlot(q)]
    /\ recordingQuestionId = Null
    /\ recordingTimeLeft = 0
    /\ currentQuestion = cur
    /\ takes = [t \in Takes |-> IF t <= Len(order) THEN RecordedTake(order[t]) ELSE NoTake]
    /\ winTimeout = Len(order)
    /\ winInterval = Len(order)
    /\ driveStatus = ""
    /\ run = IdleRun

\* the session of the default template
SessionAfter(order, cur) == SessionState(order, cur) /\ prompts = DefaultPrompts

\* the sessions with at least one answer: the ones the Submit button starts a run from
InitSub == \E order \in Orders, cur \in 0..(NumQuestions - 1) : SessionAfter(order, cur)

NextSub ==
    \/ ExportClick
    \/ \E ok \in BOOLEAN : Preparing(ok)
    \/ \E failedAt \in MergeStages \cup {"none"} : Merging(failedAt)
    \/ \E ok \in BOOLEAN : Generating(ok)
    \/ \E resp \in UploadResponses : Uploading(resp)
    \/ RetryDelay
    \/ \E ok \in BOOLEAN : Notifying(ok)
    \/ \E resp \in {"ok", "nonOk", "throw"}, blobs \in Listings : Verifying(resp, blobs)

SpecSub == InitSub /\ [][NextSub]_vars

\* Every call a run awaits settles: the import, the merge, generateAsync, the
\* POST, the 2 s timer, the notification and the listing.
FairSub ==
    /\ WF_vars(\E ok \in BOOLEAN : Preparing(ok))
    /\ WF_vars(\E failedAt \in MergeStages \cup {"none"} : Merging(failedAt))
    /\ WF_vars(\E ok \in BOOLEAN : Generating(ok))
    /\ WF_vars(\E resp \in UploadResponses : Uploading(resp))
    /\ WF_vars(RetryDelay)
    /\ WF_vars(\E ok \in BOOLEAN : Notifying(ok))
    /\ WF_vars(\E resp \in {"ok", "nonOk", "throw"}, blobs \in Listings : Verifying(resp, blobs))

\* ------------------------------------------- packaging under varying templates
\* The characters prompts are made of here: a letter and two characters
\* outside [a-zA-Z0-9].
Alphabet == {"a", " ", "_"}
Tails == UNION {[1..n -> Alphabet] : n \in 0..MaxTailLen}
Pad(n) == [k \in 1..n |-> "a"]
\* short prompts, and prompts that reach beyond the first PromptPrefixLen characters
Prompts == Tails \cup {Pad(PromptPrefixLen - 1) \o tail : tail \in Tails \ {<<>>}}
Templates == [1..NumQuestions -> Prompts]

InitNames ==
    \E ps \in Templates, order \in Orders : SessionState(order, 0) /\ prompts = ps

NextNames ==
    \/ ExportClick
    \/ \E ok \in BOOLEAN : Preparing(ok)
    \/ \E failedAt \in MergeStages \cup {"none"} : Merging(failedAt)
    \/ \E ok \in BOOLEAN : Generating(ok)

SpecNames == InitNames /\ [][NextNames]_vars

\* ------------------------- a submission started while an answer is being recorded
\* Sessions with a completed take and a further question still to record, on
\* a held stream: the candidate starts and stops recordings and submits.
InitRun == InitSub /\ FreeTakes # {}

NextRun ==
    \/ StartClickSync
    \/ StopClick
    \/ \E t \in Takes, hasData \in BOOLEAN : RecorderStopEvent(t, hasData)
    \/ NextSub

\* the stop event of a stopped recorder is dispatched, and every awaited call settles
SpecRun ==
    /\ InitRun /\ [][NextRun]_vars
    /\ WF_vars(\E t \in Takes, hasData \in BOOLEAN : RecorderStopEvent(t, hasData))
    /\ FairSub

\* ------------------------------------ packaging applied to any answer set
\* exportAndUpload invoked on every answer set, the empty one included (the
\* Submit button does not offer the empty one).
InitPack ==
    \E order \in Orders \cup {<<>>}, cur \in 0..(NumQuestions - 1) : SessionAfter(order, cur)

NextPack ==
    \/ ExportAndUpload
    \/ \E ok \in BOOLEAN : Preparing(ok)
    \/ \E failedAt \in MergeStages \cup {"none"} : Merging(failedAt)
    \/ \E ok \in BOOLEAN : Generating(ok)
    \/ \E resp \in UploadResponses : Uploading(resp)
    \/ RetryDelay
    \/ \E ok \in BOOLEAN : Notifying(ok)
    \/ \E resp \in {"ok", "nonOk", "throw"}, blobs \in Listings : Verifying(resp, blobs)

SpecPack == InitPack /\ [][NextPack]_vars

\* Every session SpecSub starts from is a state the recording controller reaches.
SubSessionsReachable == ~(InitSub /\ AnsweredCountOf(clips) = Min(MaxTakes, NumQuestions))

\* ------------------------------------------------------------------ claims

\* The third attempt of the run has been answered and no attempt succeeded.
AllAttemptsFailed ==
    /\ run.built
    /\ run.attempt = MaxAttempts
    /\ run.pc # "uploading"
    /\ ~run.uploadSuccess

\* C1: when all three upload attempts of a run have failed, the run is over
\* with the archive saved locally exactly once, the upload-failed status, and
\* the manual-recovery alert carrying the error of the third attempt.
C1_FallbackAfterAllAttemptsFail ==
    AllAttemptsFailed =>
        /\ run.pc = "done"
        /\ run.outcome = "uploadFailed"
        /\ run.downloads = 1
        /\ driveStatus = "Upload failed - File downloaded locally"
        /\ run.alert.kind = "uploadFailedSaved"
        /\ run.alert.error = run.lastError
        /\ run.lastError.attempt = MaxAttempts

C1_Witness ==
    /\ AllAttemptsFailed
    /\ ~run.okSeen
    /\ run.posts = MaxAttempts
    /\ run.downloads = 1
    /\ run.alert.error.kind \in {"status", "network"}

\* C2: a run that built its archive and has terminated either saw a success
\* status on some upload attempt or triggered the local save.
C2_NoRunLosesTheArchive ==
    (run.pc = "done" /\ run.built) => (run.okSeen \/ run.downloads >= 1)

C2_Witness ==
    /\ run.pc = "done"
    /\ run.built
    /\ run.okSeen
    /\ run.attempt = 2
    /\ run.outcome = "submitted"

\* C3: a run sends at most 3 POSTs to the store endpoint and none after an
\* attempt that returned a success status.
C3_AtMostThreePostsNoneAfterSuccess ==
    /\ run.posts <= MaxAttempts
    /\ ~run.postAfterOk

\* the recorders (takes) whose MediaRecorder is capturing
Capturing == {t \in Takes : takes[t].mr = "recording"}

\* C4: once the deadline timer armed for a recording has fired, the recorder
\* of that recording is no longer capturing (it was stopped by the candidate
\* or is stopped by the timer), and once it is inactive the marker no longer
\* names a recording of that take.
C4_DeadlineStopsRecording ==
    \A t \in Takes :
        takes[t].timeout = "fired" =>
            /\ takes[t].mr # "recording"
            /\ (takes[t].mr = "inactive" /\ recorder = t => recordingQuestionId = Null)

\* C5: in one recording session the recorder's stop is invoked at most once
\* and the question's slot is written at most once.
C5_StopInvokedAtMostOnce ==
    \A t \in Takes : takes[t].stopCalls <= 1 /\ takes[t].writes <= 1

\* C6: at most one MediaRecorder is capturing, and the marker is null or the
\* id of the template question that the capturing recorder was started for.
C6_AtMostOneCapture ==
    /\ Cardinality(Capturing) <= 1
    /\ recordingQuestionId \in Questions \cup {Null}
    /\ recordingQuestionId # Null => \A t \in Capturing : takes[t].q = recordingQuestionId

\* C7: a capturing recorder is always named by the marker: the marker is the
\* question the recorder was started for.
C7_NoCaptureWithoutMarker ==
    \A t \in Capturing : recordingQuestionId = takes[t].q

\* The stop event of recorder t resumes a Previous/Next click that was made
\* while the marker named the question t was started for.
NavCompletes(t) ==
    /\ takes[t].mr = "stopping"
    /\ takes[t].onstop.kind = "nav"
    /\ takes[t].onstop.qid = takes[t].q
    /\ takes'[t].mr = "inactive"

\* C8: a Previous/Next click made while question A is being recorded (the
\* marker is A and the recorder started for A is the one that is stopped)
\* changes currentQuestion only in a step after which A's slot holds the
\* media of that recorder, the marker is null and no recorder is capturing.
C8_NavigationStopsAndStoresFirst ==
    [][\A t \in Takes :
          NavCompletes(t) =>
              /\ FindClip(clips', takes[t].q).hasBlob
              /\ \A i \in 1..Len(FindClip(clips', takes[t].q).blob) :
                     FindClip(clips', takes[t].q).blob[i] = t
              /\ currentQuestion' = takes[t].onstop.target
              /\ recordingQuestionId' = Null
              /\ ~recording'
              /\ \A u \in Takes : takes'[u].mr # "recording"]_vars

\* C9: the media in a question's slot was produced by recorders started for
\* that question.
C9_MediaStaysWithItsQuestion ==
    \A q \in Questions :
        FindClip(clips, q).hasBlob =>
            \A i \in 1..Len(FindClip(clips, q).blob) : takes[FindClip(clips, q).blob[i]].q = q

\* C10: the archive built by a run that was submitted while question q was
\* being recorded contains q's clip, and its summary counts q as answered.
C10_SubmitPackagesTheStoppedRecording ==
    (run.built /\ run.stoppedFor # Null) =>
        /\ \E i \in 1..Len(run.zip) : run.zip[i].name = QuestionEntryName(run.stoppedFor)
        /\ \E i \in 1..Len(run.zip) :
              /\ run.zip[i].name = SummaryEntryName
              /\ run.zip[i].summary.hasAnswer[run.stoppedFor]

\* A recorder started for a question other than the displayed one is
\* capturing (Recording) or stopped with its stop event pending (Finalizing).
OtherQuestionActive ==
    \E t \in Takes : takes[t].mr \in {"recording", "stopping"} /\ takes[t].q # currentQ

\* C11: while another question is in Recording or Finalizing, a start request
\* for the displayed question is rejected: the Start button is not enabled, so
\* no recorder is created, no timer is armed and the marker and the slots stay.
C11_StartRejectedWhileOtherActive ==
    OtherQuestionActive => ~StartEnabled

\* C12: the clips array always holds exactly one slot per template question,
\* with the ids of the template in the order of the template; recording and
\* re-recording change the content of a slot and never add a slot.
C12_OneSlotPerQuestion ==
    /\ Len(clips) = NumQuestions
    /\ \A i \in 1..Len(clips) : clips[i].qid = QuestionAt(i - 1)

\* a question recorded, re-recorded and recorded again: its slot holds the
\* media of the second recorder only
C12_Witness ==
    \E q \in Questions :
        /\ takes[1].q = q /\ takes[1].writes = 1
        /\ takes[2].q = q /\ takes[2].writes = 1
        /\ FindClip(clips, q).hasBlob
        /\ FindClip(clips, q).blob = <<2>>

\* C13: allAnswered is true exactly when the slot of every template question
\* holds media, required or not, and answeredCount is the number of slots
\* that hold media; so once all questions are answered allAnswered is true
\* and answeredCount is the number of questions.
C13_CompleteIffEverySlotHoldsMedia ==
    /\ allAnswered <=> AllDone(clips)
    /\ answeredCount = Cardinality({i \in 1..Len(clips) : clips[i].hasBlob})
    /\ (\A q \in Questions : FindClip(clips, q).hasBlob) =>
           (allAnswered /\ answeredCount = NumQuestions)

\* every question has been recorded, each by its own recorder
C13_Witness ==
    /\ \A q \in Questions : FindClip(clips, q).hasBlob
    /\ \A q \in Questions : \E t \in Takes : takes[t].q = q /\ takes[t].writes = 1
    /\ \E q \in Questions : ~required[q]
    /\ allAnswered

\* The run has filled its archive (it is past the zip.file calls).
Packaged ==
    \/ run.pc \in {"generating", "uploading", "delay", "notifying", "verifying"}
    \/ run.built

\* the entries of the run's archive that carry the given name
EntriesNamed(name) == {k \in 1..Len(run.zip) : run.zip[k].name = name}

\* the questions answered in the answer set the run packages
AnsweredInRun == {q \in Questions : FindClip(run.clips, q).hasBlob}

\* C14: the archive of a run holds exactly one entry per answered question,
\* named by the question's 1-based template index and carrying its media, the
\* merged entry exactly when a merged clip exists, and one summary entry, so
\* answered + 1 or answered + 2 entries; the summary gives the number of
\* template questions, the number of answered questions, and hasAnswer true
\* exactly for the questions that have an entry.
C14_ArchiveEntriesMatchAnswers ==
    Packaged =>
        /\ \A i \in 1..NumQuestions :
              IF QuestionAt(i - 1) \in AnsweredInRun
              THEN /\ Cardinality(EntriesNamed(QuestionEntryName(i))) = 1
                   /\ \A k \in EntriesNamed(QuestionEntryName(i)) :
                         run.zip[k].blob = FindClip(run.clips, QuestionAt(i - 1)).blob
              ELSE EntriesNamed(QuestionEntryName(i)) = {}
        /\ Cardinality(EntriesNamed(MergedEntryName)) = IF run.mergedBlob.hasBlob THEN 1 ELSE 0
        /\ Cardinality(EntriesNamed(SummaryEntryName)) = 1
        /\ Len(run.zip) = Cardinality(AnsweredInRun) + 1 + (IF run.mergedBlob.hasBlob THEN 1 ELSE 0)
        /\ \A k \in EntriesNamed(SummaryEntryName) :
              /\ run.zip[k].summary.totalQuestions = NumQuestions
              /\ run.zip[k].summary.answeredQuestions = Cardinality(AnsweredInRun)
              /\ \A i \in 1..NumQuestions :
                    run.zip[k].summary.hasAnswer[QuestionAt(i - 1)]
                        <=> EntriesNamed(QuestionEntryName(i)) # {}

\* an archive of a partly answered interview: fewer question entries than
\* questions, the merged entry and the summary
C14_Witness ==
    /\ run.built
    /\ Cardinality(AnsweredInRun) = 1
    /\ Cardinality(AnsweredInRun) < NumQuestions
    /\ Len(run.zip) = 3

\* C15: exportAndUpload applied to an answer set with no answered question
\* builds an archive whose only entry is the summary; no merged clip exists
\* and no merge was attempted.
C15_NoAnswersSummaryOnly ==
    (Packaged /\ AnsweredInRun = {}) =>
        /\ Len(run.zip) = 1
        /\ run.zip[1].name = SummaryEntryName
        /\ run.zip[1].summary.answeredQuestions = 0
        /\ ~run.mergedBlob.hasBlob
        /\ ~run.mergeTried

C15_Witness ==
    /\ run.built
    /\ AnsweredInRun = {}
    /\ answeredCount = 0
    /\ Len(run.zip) = 1

\* C16: when exactly one question is answered no merge is attempted and the
\* archive holds one merged entry whose media is the media of that one clip.
C16_SingleClipIsTheMergedEntry ==
    (Packaged /\ Cardinality(AnsweredInRun) = 1) =>
        /\ ~run.mergeTried
        /\ Cardinality(EntriesNamed(MergedEntryName)) = 1
        /\ \A q \in AnsweredInRun, k \in EntriesNamed(MergedEntryName) :
              /\ run.zip[k].blob = FindClip(run.clips, q).blob
              /\ run.mergedBlob = ClipOf(FindClip(run.clips, q).blob)

C16_Witness ==
    /\ run.built
    /\ ~run.mergeTried
    /\ \E q \in Questions :
          /\ AnsweredInRun = {q}
          /\ \E k \in EntriesNamed(MergedEntryName) :
                run.zip[k].blob = FindClip(run.clips, q).blob /\ run.zip[k].blob # <<>>

\* C17: when the merge throws at any of its stages the run goes on: the
\* archive holds the clip of every answered question and the summary and no
\* merged entry, and the run is at the archive generation or has sent its
\* upload; it ends as export failed only if generating the archive throws.
C17_MergeFailureIsNotFatal ==
    (run.mergeFailedAt # "none") =>
        /\ run.mergeFailedAt \in MergeStages
        /\ \A i \in 1..NumQuestions :
              QuestionAt(i - 1) \in AnsweredInRun =>
                  \E k \in EntriesNamed(QuestionEntryName(i)) :
                      run.zip[k].blob = FindClip(run.clips, QuestionAt(i - 1)).blob
        /\ EntriesNamed(SummaryEntryName) # {}
        /\ EntriesNamed(MergedEntryName) = {}
        /\ ~run.mergedBlob.hasBlob
        /\ IF run.threw = "none"
           THEN run.outcome # "exportFailed" /\ (run.pc = "generating" \/ run.posts >= 1)
           ELSE run.threw = "generate"

\* the ffmpeg exec threw and the archive of both clips is being uploaded
C17_Witness ==
    /\ run.mergeFailedAt = "exec"
    /\ run.pc = "uploading"
    /\ Cardinality(AnsweredInRun) = 2
    /\ Len(run.zip) = 3

\* C18: when loading the archive library or generating the archive throws,
\* the run is over with the export-failed status and alert, and it has sent
\* no request to the store, the notification or the listing endpoint.
C18_PackagingFailureEndsTheRun ==
    (run.threw # "none") =>
        /\ run.pc = "done"
        /\ run.outcome = "exportFailed"
        /\ driveStatus = "Export failed - please try again"
        /\ run.alert.kind = "exportFailed"
        /\ run.posts = 0
        /\ run.notifies = 0
        /\ run.lists = 0
        /\ run.downloads = 0

\* generateAsync threw on an archive that holds a merged clip
C18_Witness ==
    /\ run.threw = "generate"
    /\ run.mergedBlob.hasBlob
    /\ run.zip # <<>>
    /\ run.pc = "done"

\* C19: once the listing has been requested (an upload attempt of the run
\* succeeded), the run only finishes as submitted, whatever the listing call
\* gives: no further POST is sent, the upload-failed fallback does not run
\* (the only download is the one of the success path), and the status stays
\* the submitted-successfully status.
C19_VerificationNeverRevertsSuccess ==
    (run.lists >= 1) =>
        /\ run.pc \in {"verifying", "done"}
        /\ run.uploadSuccess
        /\ run.lists = 1
        /\ run.downloads = 1
        /\ driveStatus = "Interview submitted successfully!"
        /\ run.pc = "done" =>
              /\ run.outcome = "submitted"
              /\ run.alert.kind \in {"interviewCompleted", "uploadMayHaveFailed"}

\* the listing answered without the file: the run ended as submitted, with the caveat
C19_Witness ==
    /\ run.lists = 1
    /\ run.pc = "done"
    /\ run.outcome = "submitted"
    /\ run.alert.kind = "uploadMayHaveFailed"
    /\ driveStatus = "Interview submitted successfully!"

\* C20: after a successful upload, when the listing call succeeds and the
\* listing holds the submitted file the alert is the unqualified completion
\* message, and the may-have-failed alert appears only when the listing call
\* succeeds and the submitted file is not in the listing.
C20_ListedFileGetsPlainConfirmation ==
    (run.pc = "done" /\ run.lists >= 1) =>
        /\ (run.listResp = "ok" /\ run.listed) => run.alert.kind = "interviewCompleted"
        /\ run.alert.kind = "uploadMayHaveFailed" => (run.listResp = "ok" /\ ~run.listed)

\* C21: a run issues the notification call at most once and only after an
\* upload attempt succeeded; however the call settles, the run goes on as a
\* successful one: no further POST, no fallback (the only download is the one
\* of the success path), the listing is requested once, the status stays the
\* submitted status and the run ends as submitted.
C21_NotificationIsBestEffort ==
    /\ run.notifies <= 1
    /\ run.notifies >= 1 => (run.uploadSuccess /\ run.okSeen /\ run.posts = run.attempt)
    /\ run.notified # "none" =>
          /\ run.notifies = 1
          /\ run.pc \in {"verifying", "done"}
          /\ run.uploadSuccess
          /\ run.downloads = 1
          /\ run.lists = 1
          /\ driveStatus = "Interview submitted successfully!"
          /\ run.pc = "done" =>
                /\ run.outcome = "submitted"
                /\ run.alert.kind \in {"interviewCompleted", "uploadMayHaveFailed"}

\* the notification call failed and the run ended as submitted, with the
\* plain confirmation
C21_Witness ==
    /\ run.notified = "failed"
    /\ run.pc = "done"
    /\ run.outcome = "submitted"
    /\ run.alert.kind = "interviewCompleted"
    /\ run.posts = 1

\* C22: within a run every POST to the store and every local save carry the
\* same archive and the same file name: the archive generated from the
\* filled zip and the name computed before the first attempt.
C22_OneArchiveOneName ==
    /\ Cardinality(run.sent \cup run.saved) <= 1
    /\ run.posts >= 1 => run.sent # {}
    /\ run.downloads >= 1 => run.saved # {}
    /\ \A x \in run.sent \cup run.saved :
          /\ x.blob = ArchiveOf(run.zip)
          /\ x.fileName = FileNameAt(0)

\* three POSTs and the fallback save, all of the one archive under the one name
C22_Witness ==
    /\ run.posts = MaxAttempts
    /\ run.outcome = "uploadFailed"
    /\ run.sent = run.saved
    /\ Cardinality(run.saved) = 1

\* C23: a stop call made while the recorder is not capturing (never started,
\* or already stopped) is a no-op: it does not invoke the recorder's stop or
\* install a stop handler on it, and a stop that returned null (the marker is
\* cleared with no stop event and no failed start) leaves the recorder, the
\* fragment buffer and every slot as they were.
C23_StopWhenNotRecordingIsNoOp ==
    [][/\ \A t \in Takes :
             takes[t].mr # "recording" =>
                 /\ takes'[t].stopCalls = takes[t].stopCalls
                 /\ takes'[t].onstop \in {takes[t].onstop, NoCont}
       /\ (/\ recordingQuestionId # Null
           /\ recordingQuestionId' = Null
           /\ \A t \in Takes : takes'[t].pc = takes[t].pc /\ takes'[t].mr = takes[t].mr)
          => (recorder' = recorder /\ recording' = recording /\ chunks' = chunks
              /\ clips' = clips)]_vars

\* The stop event of recorder t resolves a pending stop() in this step.
StopResolves(t) ==
    /\ takes[t].mr = "stopping"
    /\ takes[t].onstop.kind # "none"
    /\ takes'[t].mr = "inactive"

\* C24: the Blob a stop() resolves with holds exactly what its recorder
\* delivered since its start, in delivery order, and nothing of an earlier
\* take; the buffer is empty when a recorder starts and once stop has resolved.
C24_BlobHoldsItsOwnFragments ==
    [][/\ \A t \in Takes :
             StopResolves(t) =>
                 /\ FindClip(clips', takes[t].onstop.qid).hasBlob
                 /\ FindClip(clips', takes[t].onstop.qid).blob \in {<<t>>, <<>>}
                 /\ chunks' = <<>>
       /\ \A t \in Takes :
             (takes[t].pc = "unused" /\ takes'[t].pc # "unused") => chunks' = <<>>]_vars

\* two recordings made one after the other, each slot holding the one
\* fragment of its own recorder
C24_Witness ==
    /\ \E t, u \in Takes :
          /\ t # u
          /\ FindClip(clips, takes[t].q).blob = <<t>>
          /\ FindClip(clips, takes[u].q).blob = <<u>>
          /\ takes[t].q # takes[u].q
    /\ chunks = <<>>
    /\ recorder = Null


\* C25: once the candidate view has unmounted, every track of every stream
\* it acquired is stopped: no camera or microphone track stays live.
C25_UnmountReleasesTheDevice ==
    ~mounted => liveTracks = {}


\* C26: releasing the device is idempotent: a stopTracks() call that follows
\* another one, made by the same handler or by a handler of the render in
\* between, changes nothing: stream stays null, no track is restarted, and
\* the rest of the state is as the first call left it.
C26_ReleaseIsIdempotent ==
    [][(stopTracksCalls # <<>> /\ Len(stopTracksCalls') = Len(stopTracksCalls) + 1)
         => /\ stream = Null
            /\ UNCHANGED <<stream, liveTracks, mountReq, mounted, recorder, recording, chunks,
                           clips, recordingQuestionId, recordingTimeLeft, currentQuestion,
                           takes, winTimeout, winInterval, driveStatus, run>>]_vars

\* stopTracks() was called twice in a row by a handler that held the acquired
\* stream, and the stream is released
C26_Witness ==
    /\ Len(stopTracksCalls) = 2
    /\ stopTracksCalls[1] = MountStream
    /\ stopTracksCalls[2] = MountStream
    /\ stream = Null
    /\ MountStream \notin liveTracks


\* C27: no timer of an earlier recording is pending while a later recording
\* captures: the timers of a recording that was stopped by hand are
\* cancelled and stay so, hence an old timer can never stop or tick a later
\* recording. (Takes are numbered in the order of the Start clicks.)
C27_NoOldTimerDuringLaterRecording ==
    \A t, u \in Takes :
        (t < u /\ takes[u].mr = "recording")
            => (takes[t].timeout # "armed" /\ takes[t].interval # "armed")


\* recordAnswer is invoked for question q in this step
StartAccepted(q) ==
    \E t \in Takes : takes[t].pc = "unused" /\ takes'[t].pc # "unused" /\ takes'[t].q = q

\* a recorder for question q begins to capture in this step
CaptureBegins(q) ==
    \E t \in Takes : takes[t].mr # "recording" /\ takes'[t].mr = "recording" /\ takes'[t].q = q

\* C28: a slot is populated only from the absent state: while the slot of a
\* question holds media, no recording is started for the question and no
\* stop writes into the slot; the only change is the discard of Re-record.
C28_PopulatedOnlyFromAbsent ==
    [][\A q \in Questions :
          FindClip(clips, q).hasBlob
             => /\ ~StartAccepted(q)
                /\ ~CaptureBegins(q)
                /\ \/ FindClip(clips', q) = FindClip(clips, q)
                   \/ FindClip(clips', q) = EmptySlot(q)]_vars


\* the slots that differ between the answer set before and after the step
ChangedSlots == {i \in 1..Len(clips) : clips'[i] # clips[i]}

\* the step is the stop event of a recorder whose stop() was awaited by
\* stopRecording(q): the stop resolves with the Blob
StopResolvesFor(q) ==
    \E t \in Takes : /\ takes[t].mr = "stopping"
                     /\ takes'[t].mr = "inactive"
                     /\ takes[t].onstop.kind # "none"
                     /\ takes[t].onstop.qid = q

\* the step changes nothing but the answer set, as the Re-record button does
OnlyClipsChange ==
    UNCHANGED <<stream, liveTracks, mountReq, mounted, stopTracksCalls, prompts, template, handler, recorder, recording,
                chunks, recordingQuestionId, recordingTimeLeft, currentQuestion, takes,
                winTimeout, winInterval, driveStatus, run>>

\* C29: the answer set keeps its slots and their questions, and a step that
\* changes it changes exactly one slot: either a stop resolves and the slot
\* of the question it was stopped for receives the media, or Re-record
\* empties the populated slot of the current question and touches nothing
\* else. Every other step (navigation, ticks, starts that fail, the steps of
\* the submission) leaves all slots as they are.
C29_OnlyStopAndReRecordChangeSlots ==
    [][/\ Len(clips') = Len(clips)
       /\ \A i \in 1..Len(clips) : clips'[i].qid = clips[i].qid
       /\ clips' # clips
            => /\ Cardinality(ChangedSlots) = 1
               /\ \A i \in ChangedSlots :
                    \/ /\ StopResolvesFor(clips[i].qid)
                       /\ clips'[i].hasBlob
                    \/ /\ clips[i].qid = currentQ
                       /\ clips[i].hasBlob
                       /\ clips'[i] = EmptySlot(currentQ)
                       /\ OnlyClipsChange]_vars

\* a stop has written a slot and a Re-record has emptied it again, and the
\* submission has gone through its packaging with the remaining answer
C29_Witness ==
    /\ \E t \in Takes : takes[t].writes > 0 /\ ~FindClip(clips, takes[t].q).hasBlob
    /\ answeredCount = 1
    /\ run.built


\* C30: when a start fails (the device is refused, or the recorder cannot be
\* constructed or started), the catch of recordAnswer alerts the user and
\* clears the active-recording marker; the failed start has armed no
\* timer, has started no recorder and has changed no slot, and nothing
\* ever happens to it again: it is not retried.
C30_FailedStartReturnsToIdle ==
    [][\A t \in Takes :
          /\ (takes[t].pc # "failed" /\ takes'[t].pc = "failed")
               => /\ recordingQuestionId' = Null
                  /\ clips' = clips
                  /\ takes'[t].alerted
                  /\ takes'[t].timeout = "none"
                  /\ takes'[t].interval = "none"
                  /\ takes'[t].mr = "none"
                  /\ recorder' # t
          /\ takes[t].pc = "failed" => (takes'[t] = takes[t] /\ recorder' # t)]_vars

\* two starts have failed and the user was alerted each time; one of them
\* had acquired its own stream before the recorder threw
C30_Witness ==
    /\ recordingQuestionId = Null
    /\ \E t, u \in Takes :
          /\ t # u
          /\ takes[t].pc = "failed" /\ takes[t].alerted
          /\ takes[u].pc = "failed" /\ takes[u].alerted
          /\ stream = t


\* C31: the countdown stays between 0 and the time limit of the question
\* being recorded. It is set to that limit when recordAnswer is invoked, a
\* tick takes exactly one off and never goes below 0, the interval that
\* brings it to 0 is stopped, a finished stop resets it to 0, and nothing
\* else changes it.
C31_CountdownWithinLimit ==
    [][/\ 0 <= recordingTimeLeft'
       /\ recordingQuestionId' # Null => recordingTimeLeft' <= TimeLimitOf(recordingQuestionId')
       /\ \A q \in Questions : StartAccepted(q) => recordingTimeLeft' = TimeLimitOf(q)
       /\ \A q \in Questions : StopResolvesFor(q) => recordingTimeLeft' = 0
       /\ \A t \in Takes :
             CountdownTick(t) => /\ recordingTimeLeft' = Max(recordingTimeLeft - 1, 0)
                                 /\ recordingTimeLeft' = 0 => takes'[t].interval # "armed"
       /\ recordingTimeLeft' # recordingTimeLeft
             => \/ \E q \in Questions : StartAccepted(q)
                \/ recordingTimeLeft' = recordingTimeLeft - 1
                \/ recordingTimeLeft' = 0]_vars

\* the countdown of a running recording has ticked down from its limit to
\* 0 and its interval has stopped, while the deadline is still to come
C31_Witness ==
    /\ recordingTimeLeft = 0
    /\ \E t \in Takes : /\ takes[t].mr = "recording"
                        /\ recordingQuestionId = takes[t].q
                        /\ TimeLimitOf(takes[t].q) = 2
                        /\ takes[t].interval = "cleared"
                        /\ takes[t].timeout = "armed"


\* the moves of a run from one stage to the next
StageMoves ==
    {<<"stopping", "preparing">>,
     <<"preparing", "merging">>, <<"preparing", "generating">>, <<"preparing", "done">>,
     <<"merging", "generating">>,
     <<"generating", "uploading">>, <<"generating", "done">>,
     <<"uploading", "delay">>, <<"delay", "uploading">>,
     <<"uploading", "notifying">>, <<"uploading", "done">>,
     <<"notifying", "verifying">>,
     <<"verifying", "done">>}

\* C32: a run of the submission only moves forward: Preparing, Merging only
\* with more than one answer, the upload (its attempts and the waits between
\* them) only with the archive built, notification and verification only
\* after a successful attempt, and the fallback only after the third failed
\* attempt. A run that reported the successful submission never reports the
\* upload failure.
C32_StagesOnlyForward ==
    [][/\ (run.pc \notin {"idle", "done"} /\ run'.pc # run.pc)
             => <<run.pc, run'.pc>> \in StageMoves
       /\ run'.pc = "merging" => AnsweredCountOf(run'.clips) > 1
       /\ run'.pc \in {"uploading", "delay", "notifying", "verifying"} => run'.built
       /\ run'.pc \in {"notifying", "verifying"} => run'.uploadSuccess
       /\ run'.outcome = "submitted" => (run'.uploadSuccess /\ run.pc = "verifying")
       /\ run'.outcome = "uploadFailed"
             => /\ ~run'.uploadSuccess
                /\ run'.built
                /\ run'.attempt = MaxAttempts
                /\ run'.lastError.attempt = MaxAttempts
                /\ run'.alert.kind = "uploadFailedSaved"
       /\ run'.uploadSuccess
             => (run'.outcome # "uploadFailed" /\ run'.alert.kind # "uploadFailedSaved")]_vars

\* a run went through the merge, failed its first attempt, waited, and was
\* submitted and verified on the second
C32_Witness ==
    /\ run.pc = "done"
    /\ run.outcome = "submitted"
    /\ run.mergeTried
    /\ run.attempt = 2
    /\ run.lists = 1


\* the run has ended in one of the three outcomes, reported as such
Terminated ==
    /\ run.pc = "done"
    /\ \/ run.outcome = "submitted" /\ run.alert.kind \in {"interviewCompleted", "uploadMayHaveFailed"}
       \/ run.outcome = "uploadFailed" /\ run.alert.kind = "uploadFailedSaved" /\ run.downloads = 1
       \/ run.outcome = "exportFailed" /\ run.alert.kind = "exportFailed"

\* C33: every run of exportAndUpload terminates, in exactly one of the three
\* outcomes: submitted (with or without the caveat), upload failed with the
\* local save, or export failed.
C33_EveryRunTerminates ==
    (run.pc \notin {"idle", "done"}) ~> Terminated


\* the answered questions of the run from question q on, in template order
RECURSIVE AnsweredFrom(_)
AnsweredFrom(q) ==
    IF q > NumQuestions THEN <<>>
    ELSE (IF FindClip(run.clips, q).hasBlob THEN <<q>> ELSE <<>>) \o AnsweredFrom(q + 1)

\* the blobs of the questions qs, one after the other
RECURSIVE BlobsOf(_)
BlobsOf(qs) ==
    IF qs = <<>> THEN <<>> ELSE FindClip(run.clips, Head(qs)).blob \o BlobsOf(Tail(qs))

\* C34: once a run has passed Preparing, the merge was attempted exactly if
\* more than one question is answered; its inputs are the answered
\* questions in template order, each once, whatever the order of recording,
\* and a merge that succeeds yields their clips in that order.
C34_MergeInputsInTemplateOrder ==
    run.pc \in {"merging", "generating", "uploading", "delay", "notifying", "verifying"}
        => /\ run.mergeTried <=> Len(AnsweredFrom(1)) > 1
           /\ run.mergeTried => run.mergeInputs = AnsweredFrom(1)
           /\ ~run.mergeTried => run.mergeInputs = <<>>
           /\ (run.mergeTried /\ run.pc # "merging" /\ run.mergeFailedAt = "none")
                 => run.mergedBlob = ClipOf(BlobsOf(AnsweredFrom(1)))

\* a merge succeeded on two answers of which the first question's was
\* recorded last
C34_Witness ==
    /\ run.pc = "generating"
    /\ run.mergeTried
    /\ run.mergeFailedAt = "none"
    /\ run.mergeInputs = <<1, 2>>
    /\ FindClip(run.clips, 1).blob = <<2>>
    /\ run.mergedBlob.blob = <<2, 1>>


\* the part of question i's entry name that comes after `Q${i}_`
NameBody(i) ==
    SubSeq(QuestionEntryName(i), Len(Decimal(i)) + 3, Len(QuestionEntryName(i)))

\* C35: the entry name of a question depends on its 1-based index and on
\* the first 30 characters of its prompt only, and holds no character
\* outside [a-zA-Z0-9_] before the extension; two questions of a template
\* never share a name, no question's name is the merged entry's or the
\* summary's, and so the archive holds one entry per answer, the merged
\* entry if there is one, and the summary: no entry has overwritten another.
C35_EntryNamesNeverCollide ==
    LET name == [i \in 1..NumQuestions |-> QuestionEntryName(i)]
        body == [i \in 1..NumQuestions |-> NameBody(i)]
        head == [i \in 1..NumQuestions |-> Slice(prompts[i], PromptPrefixLen)]
    IN  /\ \A i, j \in 1..NumQuestions :
              /\ i # j => name[i] # name[j]
              /\ head[i] = head[j] => body[i] = body[j]
        /\ \A i \in 1..NumQuestions :
              /\ name[i] \notin {MergedEntryName, SummaryEntryName}
              /\ Len(body[i]) = Len(head[i]) + Len(WebmExt)
              /\ \A k \in 1..Len(head[i]) :
                    /\ IsAlnum(body[i][k]) \/ body[i][k] = "_"
                    /\ IsAlnum(prompts[i][k]) => body[i][k] = prompts[i][k]
        /\ run.pc \in {"generating", "uploading"}
              => /\ Len(run.zip) = AnsweredCountOf(run.clips)
                                     + (IF run.mergedBlob.hasBlob THEN 1 ELSE 0) + 1
                 /\ \A k, m \in 1..Len(run.zip) : k # m => run.zip[k].name # run.zip[m].name

\* an archive with both answers, the merged clip and the summary, built for
\* two different prompts that are longer than 30 characters and give the
\* same sanitized prefix
C35_Witness ==
    /\ run.pc = "uploading"
    /\ Len(run.zip) = 4
    /\ prompts[1] # prompts[2]
    /\ Len(prompts[1]) > PromptPrefixLen
    /\ \E k \in 1..PromptPrefixLen : ~IsAlnum(prompts[1][k])
    /\ NameBody(1) = NameBody(2)


\* ==================================================== the auto-upload revision
\* The revision of the candidate view that has template.autoUploadOnFinish.
\* Its useRecorder keeps `chunks` as state, its recordAnswer arms one timer for
\* the time limit and has no Stop button, and its exportAndUpload writes the
\* archive to Google Drive or saves it locally. The model variables it does
\* not have keep their initial values.
AutoTemplates == [autoUploadOnFinish : BOOLEAN, driveClientId : BOOLEAN]

AutoInit ==
    /\ template \in AutoTemplates
    /\ handler = IdleHandler
    /\ stream = Null
    /\ liveTracks = {}
    /\ mountReq = "pending"
    /\ mounted = TRUE
    /\ stopTracksCalls = <<>>
    /\ prompts = DefaultPrompts
    /\ recorder = Null
    /\ recording = FALSE
    /\ chunks = <<>>
    /\ clips = InitialClips
    /\ recordingQuestionId = Null
    /\ recordingTimeLeft = 0
    /\ currentQuestion = 0
    /\ takes = [t \in Takes |-> NoTake]
    /\ winTimeout = Null
    /\ winInterval = Null
    /\ driveStatus = ""
    /\ run = IdleRun

\* what the revision neither has nor changes after the mount
autoFixed == <<mounted, stopTracksCalls, prompts, template, handler, recordingQuestionId,
               recordingTimeLeft, winTimeout, winInterval>>

\* the Start Recording button is rendered and enabled
AutoStartEnabled == ~currentClip.hasBlob /\ ~recording

\* recordAnswer's closure: q, and stop and exportAndUpload of the render of the
\* click, which hold recorder, chunks and clips of that render
AutoClosure == [NoTake EXCEPT !.q = currentQ, !.snapRecorder = recorder,
                              !.snapChunks = chunks, !.snapClips = clips]

\* start() from `new MediaRecorder` on. ok: mr.start(), setRecorder(mr),
\* setRecording(true), then recordAnswer arms the timer. ~ok: the constructor
\* or mr.start() throws and recordAnswer's promise rejects.
AutoStart(t, tk, ok) ==
    IF ok
    THEN /\ takes' = [takes EXCEPT ![t] = [tk EXCEPT !.pc = "started", !.mr = "recording",
                                                     !.timeout = "armed"]]
         /\ recorder' = t
         /\ recording' = TRUE
    ELSE /\ takes' = [takes EXCEPT ![t] = [tk EXCEPT !.pc = "failed"]]
         /\ UNCHANGED <<recorder, recording>>

\* recordAnswer(currentQ) with a stream held
AutoRecordClick(ok) ==
    /\ AutoStartEnabled
    /\ stream # Null
    /\ FreeTakes # {}
    /\ AutoStart(NextTake, AutoClosure, ok)
    /\ UNCHANGED <<stream, liveTracks, mountReq, chunks, clips, currentQuestion, driveStatus, run>>
    /\ UNCHANGED autoFixed

\* recordAnswer(currentQ) without a stream: start() awaits request()
AutoRecordClickArming ==
    /\ AutoStartEnabled
    /\ stream = Null
    /\ FreeTakes # {}
    /\ takes' = [takes EXCEPT ![NextTake] = [AutoClosure EXCEPT !.pc = "arming"]]
    /\ UNCHANGED <<stream, liveTracks, mountReq, recorder, recording, chunks, clips,
                   currentQuestion, driveStatus, run>>
    /\ UNCHANGED autoFixed

\* the request() of start() resolves: setStream(s), then the rest of start()
AutoArmResolve(t, ok) ==
    /\ takes[t].pc = "arming"
    /\ stream' = t
    /\ liveTracks' = liveTracks \cup {t}
    /\ AutoStart(t, takes[t], ok)
    /\ UNCHANGED <<mountReq, chunks, clips, currentQuestion, driveStatus, run>>
    /\ UNCHANGED autoFixed

\* the request() of start() rejects: recordAnswer's promise rejects
AutoArmReject(t) ==
    /\ takes[t].pc = "arming"
    /\ takes' = [takes EXCEPT ![t].pc = "failed"]
    /\ UNCHANGED <<stream, liveTracks, mountReq, recorder, recording, chunks, clips,
                   currentQuestion, driveStatus, run>>
    /\ UNCHANGED autoFixed

\* the recorder that the stop() of a take's timer callback acts on: the
\* `recorder` of the render of the click
AutoStopTarget(t) == takes[t].snapRecorder
\* the clips that the exportAndUpload() called by the updater reads: the
\* `clips` of the render of the click
AutoExportClips(t, next) == takes[t].snapClips

\* exportAndUpload() up to its first await: setDriveStatus('Preparing export...')
AutoExportStarts(cl, byUpdater) ==
    /\ run' = [IdleRun EXCEPT !.pc = "preparing", !.clips = cl, !.auto = byUpdater]
    /\ driveStatus' = "Preparing export..."

\* the timer of recordAnswer fires: blob = await stop(). stop() returns null
\* when its recorder is null, and then nothing is stored. Otherwise it
\* replaces the recorder's onstop and stops it; the stop event, taken here in
\* the same step, sets recording to false, builds the blob from the closure's
\* chunks and clears chunks, and the setClips updater stores the blob and
\* calls exportAndUpload() when every question has one and the flag is set.
AutoDeadline(t) ==
    /\ takes[t].timeout = "armed"
    /\ LET r == AutoStopTarget(t)
           ended == [takes EXCEPT ![t].timeout = "fired", ![t].pc = "done"]
       IN  IF r = Null
           THEN /\ takes' = ended
                /\ UNCHANGED <<recording, chunks, clips, driveStatus, run>>
           ELSE IF takes[r].mr # "recording"
           THEN \* recorder.stop() on an inactive recorder throws
                /\ takes' = ended
                /\ UNCHANGED <<recording, chunks, clips, driveStatus, run>>
           ELSE LET next == StoreBlob(clips, takes[t].q, takes[t].snapChunks)
                IN  /\ takes' = [ended EXCEPT ![r].mr = "inactive", ![t].writes = @ + 1]
                    /\ recording' = FALSE
                    /\ chunks' = <<>>
                    /\ clips' = next
                    /\ IF AllDone(next) /\ template.autoUploadOnFinish
                       THEN AutoExportStarts(AutoExportClips(t, next), TRUE)
                       ELSE UNCHANGED <<driveStatus, run>>
    /\ UNCHANGED <<stream, liveTracks, mountReq, recorder, currentQuestion>>
    /\ UNCHANGED autoFixed

\* Previous / Next buttons
AutoPrevClick ==
    /\ currentQuestion # 0
    /\ currentQuestion' = Max(0, currentQuestion - 1)
    /\ UNCHANGED <<stream, liveTracks, mountReq, recorder, recording, chunks, clips, takes,
                   driveStatus, run>>
    /\ UNCHANGED autoFixed

AutoNextClick ==
    /\ currentQuestion # NumQuestions - 1
    /\ currentQuestion' = Min(NumQuestions - 1, currentQuestion + 1)
    /\ UNCHANGED <<stream, liveTracks, mountReq, recorder, recording, chunks, clips, takes,
                   driveStatus, run>>
    /\ UNCHANGED autoFixed

\* the export button: exportAndUpload of the current render. One invocation
\* at a time is modelled.
AutoExportClick ==
    /\ run.pc \in {"idle", "done"}
    /\ AutoExportStarts(clips, FALSE)
    /\ UNCHANGED recVars

\* catch: 'Export failed', alert
AutoExportFailed(r) ==
    /\ run' = [r EXCEPT !.pc = "done", !.outcome = "exportFailed",
                        !.alert = [kind |-> "exportFailed", error |-> NoError]]
    /\ driveStatus' = "Export failed"

\* the summary object of the revision
AutoSummaryOf(cl) ==
    [questions |-> [i \in 1..NumQuestions |->
                       [number |-> i, prompt |-> prompts[i],
                        hasAnswer |-> FindClip(cl, QuestionAt(i - 1)).hasBlob]]]

\* the entries of the answered questions, then the summary
AutoBuildZip(cl) ==
    ZipFile(AddQuestionEntries(<<>>, cl, 1), SummaryEntryName, <<>>, AutoSummaryOf(cl))

\* import('jszip') settles; the archive is filled and generateAsync awaited
AutoPreparing(ok) ==
    /\ run.pc = "preparing"
    /\ IF ~ok THEN AutoExportFailed([run EXCEPT !.threw = "import"])
       ELSE /\ run' = [run EXCEPT !.pc = "generating", !.zip = AutoBuildZip(run.clips)]
            /\ UNCHANGED driveStatus
    /\ UNCHANGED recVars

\* generateAsync settles; then Drive when template.driveClientId is set,
\* else the local download
AutoGenerating(ok) ==
    /\ run.pc = "generating"
    /\ IF ~ok THEN AutoExportFailed([run EXCEPT !.threw = "generate"])
       ELSE LET r == [run EXCEPT !.built = TRUE, !.blob = ArchiveOf(run.zip),
                                 !.fileName = FileNameAt(0)]
            IN  IF template.driveClientId
                THEN /\ run' = [r EXCEPT !.pc = "driveInit"]
                     /\ driveStatus' = "Initializing Google Drive..."
                ELSE /\ run' = [r EXCEPT !.pc = "done", !.outcome = "downloaded",
                                         !.downloads = @ + 1, !.saved = @ \cup {Payload(r)}]
                     /\ driveStatus' = "Downloaded"
    /\ UNCHANGED recVars

\* driveClient.init settles
AutoDriveInit(ok) ==
    /\ run.pc = "driveInit"
    /\ IF ~ok THEN AutoExportFailed([run EXCEPT !.threw = "driveInit"])
       ELSE /\ run' = [run EXCEPT !.pc = "driveUpload"]
            /\ driveStatus' = "Uploading to Drive..."
    /\ UNCHANGED recVars

\* driveClient.uploadZip settles
AutoDriveUpload(ok) ==
    /\ run.pc = "driveUpload"
    /\ IF ~ok THEN AutoExportFailed([run EXCEPT !.threw = "driveUpload", !.posts = @ + 1])
       ELSE /\ run' = [run EXCEPT !.pc = "done", !.outcome = "uploaded", !.posts = @ + 1,
                                  !.sent = @ \cup {Payload(run)},
                                  !.alert = [kind |-> "uploaded", error |-> NoError]]
            /\ driveStatus' = "Uploaded"
    /\ UNCHANGED recVars

NextAuto ==
    \/ MountGranted
    \/ MountDenied
    \/ \E ok \in BOOLEAN : AutoRecordClick(ok)
    \/ AutoRecordClickArming
    \/ \E t \in Takes, ok \in BOOLEAN : AutoArmResolve(t, ok)
    \/ \E t \in Takes : AutoArmReject(t)
    \/ \E t \in Takes : AutoDeadline(t)
    \/ AutoPrevClick
    \/ AutoNextClick
    \/ AutoExportClick
    \/ \E ok \in BOOLEAN : AutoPreparing(ok)
    \/ \E ok \in BOOLEAN : AutoGenerating(ok)
    \/ \E ok \in BOOLEAN : AutoDriveInit(ok)
    \/ \E ok \in BOOLEAN : AutoDriveUpload(ok)

\* The candidate answers: a recording is started whenever the button is
\* offered, the candidate moves on from an answered question, timers fire and
\* awaited calls settle.
FairAuto ==
    /\ WF_vars(MountGranted \/ MountDenied)
    /\ SF_vars(AutoRecordClick(TRUE) \/ AutoRecordClickArming)
    /\ WF_vars(\E t \in Takes, ok \in BOOLEAN : AutoArmResolve(t, ok))
    /\ WF_vars(\E t \in Takes : AutoDeadline(t))
    /\ SF_vars(currentClip.hasBlob /\ AutoNextClick)
    /\ SF_vars(currentClip.hasBlob /\ AutoPrevClick)

SpecAuto == AutoInit /\ [][NextAuto]_vars /\ FairAuto


\* an exportAndUpload run is started by the setClips updater in this step
AutoRunStarts == run # run' /\ run'.auto /\ run'.pc = "preparing"
\* a stored answer makes every question answered in this step
CompletesAnswers == ~AllDone(clips) /\ AllDone(clips')
\* no recordAnswer has been invoked yet
NoTakeYet == \A t \in Takes : takes[t].pc = "unused"
\* a recording could not be started (camera refused, MediaRecorder threw)
StartFailed == \E t \in Takes : takes[t].pc = "failed"

\* C36: in the auto-upload revision, with autoUploadOnFinish set the automatic
\* submission starts exactly in the step in which a recorded answer makes
\* every question answered, and the archive it builds has an entry for each of
\* the k answers, the one just recorded included; with the flag unset no
\* automatic submission starts. A candidate who holds the camera and records
\* every question to its time limit, every recording having started, therefore
\* gets the automatic submission.
C36_AutoUploadWhenAllAnswered ==
    /\ [][/\ AutoRunStarts => template.autoUploadOnFinish /\ CompletesAnswers
          /\ CompletesAnswers /\ template.autoUploadOnFinish => AutoRunStarts]_vars
    /\ [](run.auto /\ run.built =>
            \A i \in 1..NumQuestions : Cardinality(EntriesNamed(QuestionEntryName(i))) = 1)
    /\ ((template.autoUploadOnFinish /\ NoTakeYet /\ stream # Null) ~> (run.auto \/ StartFailed))


\* ======================================================= api/store-interview
\* The serverless handler behind /api/store-interview, in the revision of
\* src/api ("api") and in the one with request logging ("logged"). One
\* invocation at a time is followed; the blob store outlives the invocations.
Revisions == {"api", "logged"}
Methods == {"POST", "GET"}
\* req.headers['x-filename']: absent or empty, a plain name, a name that
\* already starts with 'interviews/' (names as lists of path segments)
FileNameHeaders == {<<>>, <<"a.zip">>, <<"interviews", "a.zip">>}
Requests == [method : Methods, bodyLen : 0..1, xFilename : FileNameHeaders, xMetaOk : BOOLEAN]

\* `interview_${Date.now()}.zip`
DefaultBaseName == <<"interview_now.zip">>
\* req.headers['x-filename'] || `interview_${Date.now()}.zip`
BaseNameOf(rq) == IF rq.xFilename = <<>> THEN DefaultBaseName ELSE rq.xFilename
\* baseName.startsWith('interviews/') ? baseName : `interviews/${baseName}`
StoredFileName(baseName) ==
    IF Len(baseName) >= 2 /\ baseName[1] = "interviews" THEN baseName
    ELSE <<"interviews">> \o baseName
\* result.url of a stored pathname
UrlOf(pathname) == <<"https://store">> \o pathname

\* res.status(s).json({ error })
RespondError(h, s, e) ==
    [h EXCEPT !.pc = "done", !.res = [status |-> s, url |-> <<>>, error |-> e]]
\* res.status(200).json({ success: true, url: result.url, ... })
RespondStored(h, pathname) ==
    [h EXCEPT !.pc = "done", !.res = [status |-> 200, url |-> UrlOf(pathname), error |-> "none"]]

\* everything but the handler
clientVars == <<stream, liveTracks, mountReq, mounted, stopTracksCalls, prompts, template,
                recorder, recording, chunks, clips, recordingQuestionId, recordingTimeLeft,
                currentQuestion, takes, winTimeout, winInterval, driveStatus, run>>

InitStore ==
    /\ \E rev \in Revisions, tok \in BOOLEAN :
          handler = [IdleHandler EXCEPT !.revision = rev, !.hasToken = tok]
    /\ stream = Null
    /\ liveTracks = {}
    /\ mountReq = "pending"
    /\ mounted = TRUE
    /\ stopTracksCalls = <<>>
    /\ prompts = DefaultPrompts
    /\ template = PlainTemplate
    /\ recorder = Null
    /\ recording = FALSE
    /\ chunks = <<>>
    /\ clips = InitialClips
    /\ recordingQuestionId = Null
    /\ recordingTimeLeft = 0
    /\ currentQuestion = 0
    /\ takes = [t \in Takes |-> NoTake]
    /\ winTimeout = Null
    /\ winInterval = Null
    /\ driveStatus = ""
    /\ run = IdleRun

\* handler(req, res) up to its first await: the method check, and in the
\* logged revision the token check, which comes first there
HandlerInvoked(rq) ==
    /\ handler.pc \in {"idle", "done"}
    /\ LET h == [handler EXCEPT !.req = rq, !.fileName = <<>>, !.res = NoResponse,
                                !.puts = 0, !.putOk = FALSE]
       IN  handler' =
             IF rq.method # "POST"
             THEN RespondError(h, IF h.revision = "api" THEN 500 ELSE 405, "Method not allowed")
             ELSE IF h.revision = "logged" /\ ~h.hasToken
             THEN RespondError(h, 500, "Storage token not configured")
             ELSE [h EXCEPT !.pc = "reading"]
    /\ UNCHANGED clientVars

\* the 'end' event of the request: names and metadata are computed and put()
\* is called. In the api revision JSON.parse(x-meta) may throw into the catch
\* and the token is checked here; the logged revision rejects an empty body
\* and ignores unparsable metadata.
RequestEnd ==
    /\ handler.pc = "reading"
    /\ LET h == [handler EXCEPT !.fileName = StoredFileName(BaseNameOf(handler.req))]
           calling == [h EXCEPT !.pc = "putting", !.puts = @ + 1]
       IN  handler' =
             IF handler.revision = "api"
             THEN IF ~handler.req.xMetaOk
                  THEN RespondError(h, 500, "Failed to store interview")
                  ELSE IF ~handler.hasToken
                  THEN RespondError(h, 500, "Storage token not configured")
                  ELSE calling
             ELSE IF handler.req.bodyLen = 0
                  THEN RespondError(handler, 400, "No data received")
                  ELSE calling
    /\ UNCHANGED clientVars

\* a handler that reports success whether or not put() resolved
PutSettlesReportsSuccess(ok) ==
    /\ handler.pc = "putting"
    /\ handler' = IF ok
                  THEN RespondStored([handler EXCEPT !.putOk = TRUE,
                                          !.store = @ \cup {handler.fileName}], handler.fileName)
                  ELSE RespondStored(handler, handler.fileName)
    /\ UNCHANGED clientVars

\* await put(fileName, buffer, ...) settles: 200 with result.url, or the catch
PutSettles(ok) ==
    /\ handler.pc = "putting"
    /\ handler' = IF ok
                  THEN RespondStored([handler EXCEPT !.putOk = TRUE,
                                          !.store = @ \cup {handler.fileName}], handler.fileName)
                  ELSE RespondError(handler, 500, "Failed to store interview")
    /\ UNCHANGED clientVars

NextStore ==
    \/ \E rq \in Requests : HandlerInvoked(rq)
    \/ RequestEnd
    \/ \E ok \in BOOLEAN : PutSettles(ok)

SpecStore == InitStore /\ [][NextStore]_vars

\* the handler has answered
Answered == handler.pc = "done"
Is2xx(s) == s >= 200 /\ s <= 299

\* C37: the store-interview handler answers with a 2xx status only after its
\* write to the blob store succeeded, and then with the URL of what it wrote;
\* a request that is not a POST, a missing storage token and a failing write
\* each get a non-2xx answer; and while a non-POST request or a request
\* without a token is served, put is not called and the store does not change.
C37_SuccessOnlyAfterTheWrite ==
    /\ [](Answered =>
            /\ Is2xx(handler.res.status) =>
                  /\ handler.putOk
                  /\ handler.fileName \in handler.store
                  /\ handler.res.url = UrlOf(handler.fileName)
            /\ (handler.req.method # "POST" \/ ~handler.hasToken
                    \/ (handler.puts > 0 /\ ~handler.putOk))
                  => ~Is2xx(handler.res.status))
    /\ []((handler.req.method # "POST" \/ ~handler.hasToken) => handler.puts = 0)
    /\ [][(handler'.req.method # "POST" \/ ~handler'.hasToken)
              => handler'.store = handler.store]_vars

\* a POST answered with 200 and the URL of the file just written, in a store
\* that already held another file
C37_Witness ==
    /\ Answered
    /\ handler.res.status = 200
    /\ handler.res.url = UrlOf(handler.fileName)
    /\ Cardinality(handler.store) >= 2


\* the run has sent at least one POST to the store endpoint
UploadStageReached == run.posts >= 1

\* C38: a run of exportAndUpload that reached the upload stage and has
\* terminated has triggered the local save of its archive exactly once,
\* whether an attempt succeeded or all attempts failed; at no point of a run
\* has the save been triggered twice.
C38_LocalSaveExactlyOnce ==
    /\ run.downloads <= 1
    /\ (run.pc = "done" /\ UploadStageReached) =>
          /\ run.downloads = 1
          /\ run.saved = {Payload(run)}

\* a run that failed twice, succeeded at the third attempt and has ended with
\* its one save
C38_Witness ==
    /\ run.pc = "done"
    /\ run.outcome = "submitted"
    /\ run.posts = MaxAttempts
    /\ run.lastError.attempt = MaxAttempts - 1
    /\ run.downloads = 1


\* ------------------------------------- Submit clicked while a run is in progress
InProgress(r) == r.pc \notin {"none", "idle", "done"}

\* Submit Interview is clicked while an invocation of exportAndUpload is
\* suspended in one of its awaits: the button is disabled only while nothing
\* is answered, and exportAndUpload starts with no test of a run in progress.
\* The new invocation runs from its first line; the earlier one stays at its
\* await. Two invocations are followed: the first of the session and one
\* started while it is in progress.
ExportClickDuringRun ==
    /\ answeredCount # 0
    /\ InProgress(run)
    /\ ~InProgress(run.other)
    /\ StopCallsLeft(recorder, recording)
    /\ EnsureRecordingStopped(SubmitCont(recordingQuestionId),
            [IdleRun EXCEPT !.pc = "stopping", !.clips = clips,
                            !.answeredCount = answeredCount,
                            !.stoppedFor = IF /\ recordingQuestionId # Null
                                              /\ ~StopReturnsNull(recorder, recording)
                                              /\ takes[recorder].mr = "recording"
                                              /\ takes[recorder].q = recordingQuestionId
                                           THEN recordingQuestionId ELSE Null,
                            !.other = [run EXCEPT !.other = NoRun]])
    /\ UNCHANGED <<stream, liveTracks, mountReq, mounted, stopTracksCalls, prompts, template,
                   handler, recorder, recording, chunks, clips, winTimeout, winInterval>>

\* The awaited call of the other invocation is the next to settle: the steps
\* that follow are its steps.
OtherRunResumes ==
    /\ InProgress(run.other)
    /\ run' = [run.other EXCEPT !.other = [run EXCEPT !.other = NoRun]]
    /\ UNCHANGED <<driveStatus, recVars>>

NextTwoRuns ==
    \/ run.pc = "idle" /\ ExportClick
    \/ ExportClickDuringRun
    \/ OtherRunResumes
    \/ \E ok \in BOOLEAN : Preparing(ok)
    \/ \E failedAt \in MergeStages \cup {"none"} : Merging(failedAt)
    \/ \E ok \in BOOLEAN : Generating(ok)
    \/ \E resp \in UploadResponses : Uploading(resp)
    \/ RetryDelay
    \/ \E ok \in BOOLEAN : Notifying(ok)
    \/ \E resp \in {"ok", "nonOk", "throw"}, blobs \in Listings : Verifying(resp, blobs)

\* the answered sessions, seen from the first question
InitTwoRuns == InitSub /\ currentQuestion = 0

SpecTwoRuns == InitTwoRuns /\ [][NextTwoRuns]_vars

\* C39: at most one run of the submission pipeline is in progress at any
\* time: a Submit click while a run is packaging, uploading or waiting between
\* attempts starts no second run, and no two POSTs of the session's archive
\* are in flight together.
C39_AtMostOneRunInProgress ==
    /\ ~(InProgress(run) /\ InProgress(run.other))
    /\ ~(run.pc = "uploading" /\ run.other.pc = "uploading")

====
